---- MODULE Spec2Model ----
(***************************************************************************)
(* A model of the request-serving data plane of github-copilot-svcs:       *)
(* the circuit breaker, the coalescing cache and the proxy pipeline of     *)
(* internal/proxy.go, the models handler of internal/models.go, the        *)
(* worker pool of server.go and the token service of config.go.            *)
(***************************************************************************)
EXTENDS Integers, Sequences, FiniteSets, TLC

VARIABLES
    cb,         \* CircuitBreaker: [state, failureCount, lastFailureTime]
    now,        \* the wall clock, in seconds
    inflight,   \* requests admitted by canExecute whose outcome is not yet notified
    cpc,        \* per goroutine: position inside canExecute ("idle" | "upgrade")
    lastCall,   \* the breaker call that returned last: [op, result, before, after, at]
    consec,     \* failures notified since the last success notification
    requests,   \* CoalescingCache.requests: key -> channel (0: no entry)
    chans,      \* the channels made by CoalesceRequest: [buf, closed, produced]
    kpc,        \* per /v1/models request: position in Handler / CoalesceRequest
    kch,        \* per request: the channel it found or made
    kjoin,      \* per request: it found the entry while the leader ran produce
    kafter,     \* per request: the model list was loaded when the request began
    kret,       \* per request: what CoalesceRequest returned
    kstatus,    \* per request: the status the client was answered with
    cachedModels, \* models.go: the cached list (0: nil)
    modelsLoaded, \* models.go: the load-once flag
    loads,      \* how many times the model list was computed
    allowedModels, \* Config.AllowedModels
    req,        \* what the worker has read of the client request:
                \* [method, bodyLen, readOK, json, model, path]
    hpc,        \* position of the handler goroutine of Handler()
    wpc,        \* position of the worker goroutine in processProxyRequest
    ctxDone,    \* the request context is done (deadline, disconnect or cancel)
    attempt,    \* makeRequestWithRetry: the loop counter
    lastOutcome, \* the outcome of the latest httpClient.Do of this request
    n5xx,       \* upstream responses with status >= 500 received for this request
    adm,        \* the admission check of this request: [cb: the breaker it found, at: its time]
    hbranch,    \* how Handler left: "rejected" | "done" | "timeout" ("none": it has not)
    upstreamCalls, \* requests sent upstream for this request
    retryRes,   \* what makeRequestWithRetry returned: [kind, status]
    notes,      \* breaker notifications made for this request, in order
    tokenChecks, \* EnsureValidToken calls made for this request
    headersSent, \* responseWrapper.headersSent
    wire,       \* status codes passed to the underlying writer's WriteHeader
    copied,     \* how much of the upstream body the worker has written: "none" | "part" | "all"
    doneCh,     \* the request's done channel (capacity 1)
    jobQueue,   \* WorkerPool.jobQueue: the jobs buffered in the channel, oldest first
    quit,       \* WorkerPool.quit has been closed
    wst,        \* per worker goroutine: "select" | "running" | "exited" | "dead"
    wjob,       \* per worker: the job it runs (0: none)
    jst,        \* per job: "new" | "submit" | "queued" | "running" | "done"
    accepted,   \* the jobs in the order in which Submit's send completed
    started,    \* the jobs in the order in which workers received them
    stopst,     \* the caller of Stop: "none" | "waiting" | "returned"
    crashed,    \* an unrecovered panic has terminated the process
    hexp,       \* per handler job: the request's deadline has expired
    hret,       \* per handler job: the handler has returned
    jdone,      \* per handler job: the buffer of its done channel
    jsent,      \* per handler job: every value sent on its done channel so far
    tok,        \* the credential record: [copilotLen, githubLen, expiresAt]
    tnow,       \* time.Now().Unix() as EnsureValidTokenWithConfig read it
    apc,        \* position inside EnsureValidTokenWithConfig / RefreshTokenWithContext
    acall,      \* the call being served: [op, override, ctxAtEntry]
    rattempt,   \* RefreshTokenWithContext: the loop counter
    rctxDone,   \* the context passed to RefreshTokenWithContext is cancelled
    exchanges,  \* token-exchange requests sent (getCopilotToken)
    storeUpdates, \* store updates sent (updateTokenInDatabase)
    refreshes,  \* refreshes triggered by EnsureValidTokenWithConfig
    ares,       \* what the call returned: "none" | "ok" | "ctxErr" | "err" | "panic"
    cancelledIn, \* the position at which the context was cancelled ("none": it was not)
    rerrs,      \* the errors of the failed getCopilotToken calls of the refresh, in order
    rwaits,     \* the waitTime of each backoff timer the refresh made, in seconds
    aerr,       \* the error the call returned (<<>>: nil)
    \* HTTP server, server.go (Server.Start, Server.Stop)
    listening,  \* httpServer accepts connections (ListenAndServe has not been shut down)
    rst,        \* per request: "new" | "accepted" | "responded"
    shutst,     \* httpServer.Shutdown(ctx): "none" | "draining" | "complete" | "deadline"
    selapsed,   \* seconds since Stop made ctx with context.WithTimeout
    \* streaming copy, proxy.go (handleStreamingResponse)
    sbody,      \* resp.Body: the blocks the upstream sends
    spos,       \* blocks of resp.Body consumed by Read
    sbuf,       \* buf, as blocks
    sn,         \* n of the last Read, in blocks
    sreadErr,   \* readErr of the last Read: "nil" | "EOF" | "err"
    spc,        \* position: "idle" | "read" | "write" | "flush" | "check" | "copy" | "done"
    sclient,    \* blocks the client's writer has taken, in order
    sflushed,   \* blocks of sclient that a Flush has pushed out
    sret,       \* return value: "none" | "nil" | "writeErr" | "readErr"
    \* device flow over HTTP, auth_api.go and config.go
    zpc,        \* position of the request: "idle" | "stage1" | "stage2" | "once" | "poll" |
                \* "exchange" | "store" | "fetch" | "done" | "panic"
    zreq,       \* the request and the clock at its arrival
    zdevReqs,   \* requests sent to the device-code endpoint
    ztokReqs,   \* requests sent to the token endpoint
    zexch,      \* requests sent to the API-key endpoint
    zfetches,   \* reads of the token store
    zwrites,    \* the records posted to the token store, in order
    zgithubLen, \* length of the OAuth token obtained
    zcfg,       \* cfg after the exchange
    zerr,       \* text of the error the flow returned
    zresp,      \* the HTTP response
    zlog,       \* the log entries of the request
    \* configuration, config.go
    vpc,        \* "none" | "made" | "validated"
    vraw,       \* the Config value as it was made
    vcfg,       \* the Config value
    vdefaults,  \* the three SetDefault functions have been applied to it
    vres,       \* what Validate returned: "none" (not called) | "nil" | the error
    \* polling of the token endpoint, config.go (pollForGitHubTokenWithContext)
    gpc,        \* position: "idle" | "loop" | "select" | "request" | "returned"
    gin,        \* the arguments: interval, expiresIn, and whether ctx can be cancelled
    giter,      \* iterations of the loop begun
    gpolls,     \* requests sent to the token endpoint
    gctxDone,   \* ctx is done
    glast,      \* what the last request gave
    gret,       \* the return value: the token's length and the error
    \* concurrent refreshes for one email, config.go
    xpc,        \* position of each refresh
    xcfg,       \* the Config values the refreshes work on
    xattempt,   \* attempt of each refresh
    xans,       \* the answer of the API-key endpoint each refresh holds (its number)
    xissued,    \* answers the API-key endpoint has given
    xposts,     \* POSTs to the store that are under way
    xstore,     \* the record of the email in the store
    xapplied,   \* the refreshes whose POST the store has applied, in order
    xposted,    \* the body each refresh has posted
    xupdates,   \* POSTs each refresh has sent
    xres        \* what each refresh returned: "none" | "ok" | "err"

breakerVars == <<cb, now, inflight, cpc, lastCall, consec>>

coalVars == <<requests, chans, kpc, kch, kjoin, kafter, kret, kstatus,
              cachedModels, modelsLoaded, loads>>

proxyVars == <<allowedModels, req, adm, hbranch, hpc, wpc, ctxDone, attempt, lastOutcome, n5xx,
               upstreamCalls, retryRes, notes, tokenChecks, headersSent, wire,
               doneCh, copied>>

poolVars == <<jobQueue, quit, wst, wjob, jst, accepted, started, stopst, crashed,
              hexp, hret, jdone, jsent>>

authVars == <<tok, tnow, apc, acall, rattempt, rctxDone, exchanges, storeUpdates,
              refreshes, ares, cancelledIn, rerrs, rwaits, aerr>>

srvVars == <<listening, rst, shutst, selapsed>>

streamVars == <<sbody, spos, sbuf, sn, sreadErr, spc, sclient, sflushed, sret>>

apiVars == <<zpc, zreq, zdevReqs, ztokReqs, zexch, zfetches, zwrites, zgithubLen, zcfg,
             zerr, zresp, zlog>>

cfgVars == <<vpc, vraw, vcfg, vdefaults, vres>>

pollVars == <<gpc, gin, giter, gpolls, gctxDone, glast, gret>>

refVars == <<xpc, xcfg, xattempt, xans, xissued, xposts, xstore, xapplied, xposted,
             xupdates, xres>>

moreVars == <<pollVars, refVars>>

extraVars == <<srvVars, streamVars, apiVars, cfgVars, moreVars>>

vars == <<breakerVars, coalVars, proxyVars, poolVars, authVars, extraVars>>

----------------------------------------------------------------------------
(* Bounds of the model *)

\* the clock stops here
MaxTime == 3
\* failureCount is an int64; onFailure is not taken beyond this count
MaxFailures == 7
\* the number of admitted requests that may be awaiting their outcome
MaxInflight == 2
\* cfg.Timeouts.CircuitBreaker, in seconds (30 by default; any value >= 1)
CBTimeout == 1
\* concurrent /v1/models requests
NumCallers == 3
\* channels CoalesceRequest may make in one run
MaxChans == 2
\* bytes in one block of a streamed body (reads and writes move whole blocks)
BlockBytes == 512
\* the longest streamed body, in blocks
MaxBodyBlocks == 4
\* concurrent refreshes for one email
NumRefreshers == 2
\* answers the API-key endpoint gives in one run
MaxIssued == 2
\* NewWorkerPool(workers)
PoolWorkers == 1
\* jobs handed to Submit in one run
NumJobs == 4

----------------------------------------------------------------------------
(* Circuit breaker, proxy.go *)

circuitBreakerFailureThreshold == 5

CircuitClosed == "Closed"
CircuitOpen == "Open"
CircuitHalfOpen == "HalfOpen"

\* goroutines that may be inside canExecute at the same time
Goroutines == {1, 2}

\* the zero time.Time of a fresh breaker lies far before any clock value
ZeroTime == 0 - (CBTimeout + MaxTime + 1)

NewCircuitBreaker ==
    [state |-> CircuitClosed, failureCount |-> 0, lastFailureTime |-> ZeroTime]

\* time.Since(cb.lastFailureTime) > cb.timeout
TimeoutElapsed(b, t) == t - b.lastFailureTime > CBTimeout

\* canExecute under the read lock: what the call decides from the state it reads
canExecuteRead(b, t) ==
    IF b.state = CircuitClosed THEN "admit"
    ELSE IF b.state = CircuitOpen
         THEN IF TimeoutElapsed(b, t) THEN "upgrade" ELSE "reject"
         ELSE "admit"

\* canExecute under the write lock: cb.state = CircuitHalfOpen
canExecuteUpgrade(b) == [b EXCEPT !.state = CircuitHalfOpen]

onSuccess(b) == [b EXCEPT !.failureCount = 0, !.state = CircuitClosed]

\* onFailure with the threshold comparison off by one (> instead of >=)
onFailureLateTrip(b, t) ==
    LET n == b.failureCount + 1 IN
    [state |-> IF n > circuitBreakerFailureThreshold THEN CircuitOpen ELSE b.state,
     failureCount |-> n,
     lastFailureTime |-> t]

\* onFailure counting every upstream 5xx response of the request
onFailurePerResponse(b, t) ==
    LET n == b.failureCount + (IF n5xx > 1 THEN n5xx ELSE 1) IN
    [state |-> IF n >= circuitBreakerFailureThreshold THEN CircuitOpen ELSE b.state,
     failureCount |-> n,
     lastFailureTime |-> t]

onFailure(b, t) ==
    LET n == b.failureCount + 1 IN
    [state |-> IF n >= circuitBreakerFailureThreshold THEN CircuitOpen ELSE b.state,
     failureCount |-> n,
     lastFailureTime |-> t]

NoCall == [op |-> "none", result |-> FALSE, before |-> NewCircuitBreaker,
           after |-> NewCircuitBreaker, at |-> 0]

Call(op, result, before, after) ==
    [op |-> op, result |-> result, before |-> before, after |-> after, at |-> now]

InitBreaker ==
    /\ cb = NewCircuitBreaker
    /\ now = 0
    /\ inflight = 0
    /\ cpc = [g \in Goroutines |-> "idle"]
    /\ lastCall = NoCall
    /\ consec = 0

Tick ==
    /\ now < MaxTime
    /\ now' = now + 1
    /\ UNCHANGED <<cb, inflight, cpc, lastCall, consec>>
    /\ UNCHANGED <<coalVars, proxyVars, poolVars, authVars, extraVars>>

\* an admitted request counts as in flight until its outcome is known
Admit == IF inflight < MaxInflight THEN inflight + 1 ELSE inflight

\* canExecute run without interference: both locked sections in one step
SeqCanExecute ==
    /\ LET d == canExecuteRead(cb, now)
           after == IF d = "upgrade" THEN canExecuteUpgrade(cb) ELSE cb
       IN /\ cb' = after
          /\ lastCall' = Call("canExecute", d # "reject", cb, after)
          /\ inflight' = IF d # "reject" THEN Admit ELSE inflight
    /\ UNCHANGED <<now, cpc, consec>>
    /\ UNCHANGED <<coalVars, proxyVars, poolVars, authVars, extraVars>>

\* processProxyRequest notifies a success (final status < 500)
NotifySuccess ==
    /\ inflight > 0
    /\ cb' = onSuccess(cb)
    /\ lastCall' = Call("onSuccess", TRUE, cb, onSuccess(cb))
    /\ inflight' = inflight - 1
    /\ consec' = 0
    /\ UNCHANGED <<now, cpc>>
    /\ UNCHANGED <<coalVars, proxyVars, poolVars, authVars, extraVars>>

\* processProxyRequest notifies a failure (transport error or status >= 500)
NotifyFailure ==
    /\ inflight > 0
    /\ cb.failureCount < MaxFailures
    /\ cb' = onFailure(cb, now)
    /\ lastCall' = Call("onFailure", FALSE, cb, onFailure(cb, now))
    /\ inflight' = inflight - 1
    /\ consec' = consec + 1
    /\ UNCHANGED <<now, cpc>>
    /\ UNCHANGED <<coalVars, proxyVars, poolVars, authVars, extraVars>>

\* an admitted request that ends before the upstream call notifies nothing
NoNotification ==
    /\ inflight > 0
    /\ inflight' = inflight - 1
    /\ UNCHANGED <<cb, now, cpc, lastCall, consec>>
    /\ UNCHANGED <<coalVars, proxyVars, poolVars, authVars, extraVars>>

NextBreakerSeq ==
    \/ Tick
    \/ SeqCanExecute
    \/ NotifySuccess
    \/ NotifyFailure
    \/ NoNotification

\* canExecute, first locked section (RLock ... RUnlock)
CanExecuteRead(g) ==
    /\ cpc[g] = "idle"
    /\ LET d == canExecuteRead(cb, now) IN
       IF d = "upgrade"
       THEN /\ cpc' = [cpc EXCEPT ![g] = "upgrade"]
            /\ UNCHANGED <<cb, now, inflight, lastCall, consec>>
       ELSE /\ lastCall' = Call("canExecute", d = "admit", cb, cb)
            /\ inflight' = IF d = "admit" THEN Admit ELSE inflight
            /\ UNCHANGED <<cb, now, cpc, consec>>
    /\ UNCHANGED <<coalVars, proxyVars, poolVars, authVars, extraVars>>

\* canExecute, second locked section (Lock; state = HalfOpen; Unlock), return true
CanExecuteUpgrade(g) ==
    /\ cpc[g] = "upgrade"
    /\ cb' = canExecuteUpgrade(cb)
    /\ cpc' = [cpc EXCEPT ![g] = "idle"]
    /\ lastCall' = Call("canExecute", TRUE, cb, canExecuteUpgrade(cb))
    /\ inflight' = Admit
    /\ UNCHANGED <<now, consec>>
    /\ UNCHANGED <<coalVars, proxyVars, poolVars, authVars, extraVars>>

NextBreaker ==
    \/ Tick
    \/ \E g \in Goroutines : CanExecuteRead(g)
    \/ \E g \in Goroutines : CanExecuteUpgrade(g)
    \/ NotifySuccess
    \/ NotifyFailure
    \/ NoNotification

----------------------------------------------------------------------------
(* Coalescing cache (proxy.go) and the /v1/models handler (models.go) *)

Callers == 1..NumCallers

\* GetRequestKey("GET", "/v1/models", nil): the one key the handler uses
ModelsKey == "GET/v1/models"

\* the zero value a receive from a closed, drained channel yields
Nil == 0

\* make(chan interface{}, 1)
NewChan == [buf |-> <<>>, closed |-> FALSE, produced |-> Nil]

InitCoalesce ==
    /\ requests = [k \in {ModelsKey} |-> 0]
    /\ chans = <<>>
    /\ kpc = [c \in Callers |-> "idle"]
    /\ kch = [c \in Callers |-> 0]
    /\ kjoin = [c \in Callers |-> FALSE]
    /\ kafter = [c \in Callers |-> FALSE]
    /\ kret = [c \in Callers |-> Nil]
    /\ kstatus = [c \in Callers |-> 0]
    /\ cachedModels = Nil
    /\ modelsLoaded = FALSE
    /\ loads = 0

\* the leader of channel ch is inside fn()
Producing(ch) == \E l \in Callers : kpc[l] = "produce" /\ kch[l] = ch

\* CoalesceRequest, first locked section: join the entry found, or make one
CoalesceEnter(c) ==
    /\ kpc[c] = "idle"
    /\ IF requests[ModelsKey] # 0
       THEN /\ kch' = [kch EXCEPT ![c] = requests[ModelsKey]]
            /\ kjoin' = [kjoin EXCEPT ![c] = Producing(requests[ModelsKey])]
            /\ kpc' = [kpc EXCEPT ![c] = "wait"]
            /\ UNCHANGED <<requests, chans>>
       ELSE /\ Len(chans) < MaxChans
            /\ chans' = Append(chans, NewChan)
            /\ requests' = [requests EXCEPT ![ModelsKey] = Len(chans) + 1]
            /\ kch' = [kch EXCEPT ![c] = Len(chans) + 1]
            /\ kjoin' = [kjoin EXCEPT ![c] = FALSE]
            /\ kpc' = [kpc EXCEPT ![c] = "produce"]
    /\ kafter' = [kafter EXCEPT ![c] = modelsLoaded]
    /\ UNCHANGED <<kret, kstatus, cachedModels, modelsLoaded, loads>>
    /\ UNCHANGED <<breakerVars, proxyVars, poolVars, authVars, extraVars>>

\* the closure the handler passes: the cached list, or a first load (from
\* models.dev or, when that fails, the built-in defaults)
LoadModels(c) ==
    /\ kpc[c] = "produce"
    /\ IF modelsLoaded /\ cachedModels # Nil
       THEN /\ chans' = [chans EXCEPT ![kch[c]].produced = cachedModels]
            /\ UNCHANGED <<cachedModels, modelsLoaded, loads>>
       ELSE /\ \E fetched \in BOOLEAN :
                 /\ cachedModels' = loads + 1
                 /\ modelsLoaded' = TRUE
                 /\ loads' = loads + 1
                 /\ chans' = [chans EXCEPT ![kch[c]].produced = loads + 1]
    /\ kpc' = [kpc EXCEPT ![c] = "send"]
    /\ UNCHANGED <<requests, kch, kjoin, kafter, kret, kstatus>>
    /\ UNCHANGED <<breakerVars, proxyVars, poolVars, authVars, extraVars>>

\* ch <- result (the buffer of capacity one is empty: the send does not block)
CoalesceSend(c) ==
    /\ kpc[c] = "send"
    /\ Len(chans[kch[c]].buf) < 1
    /\ chans' = [chans EXCEPT ![kch[c]].buf = Append(@, chans[kch[c]].produced)]
    /\ kpc' = [kpc EXCEPT ![c] = "close"]
    /\ UNCHANGED <<requests, kch, kjoin, kafter, kret, kstatus, cachedModels, modelsLoaded, loads>>
    /\ UNCHANGED <<breakerVars, proxyVars, poolVars, authVars, extraVars>>

\* close(ch)
CoalesceClose(c) ==
    /\ kpc[c] = "close"
    /\ chans' = [chans EXCEPT ![kch[c]].closed = TRUE]
    /\ kpc' = [kpc EXCEPT ![c] = "cleanup"]
    /\ UNCHANGED <<requests, kch, kjoin, kafter, kret, kstatus, cachedModels, modelsLoaded, loads>>
    /\ UNCHANGED <<breakerVars, proxyVars, poolVars, authVars, extraVars>>

\* a leader that returns without taking its key out of the map
CoalesceCleanupKeepsKey(c) ==
    /\ kpc[c] = "cleanup"
    /\ kret' = [kret EXCEPT ![c] = chans[kch[c]].produced]
    /\ kpc' = [kpc EXCEPT ![c] = "assert"]
    /\ UNCHANGED <<requests, chans, kch, kjoin, kafter, kstatus, cachedModels, modelsLoaded, loads>>
    /\ UNCHANGED <<breakerVars, proxyVars, poolVars, authVars, extraVars>>

\* second locked section: delete(cc.requests, key); return result
CoalesceCleanup(c) ==
    /\ kpc[c] = "cleanup"
    /\ requests' = [requests EXCEPT ![ModelsKey] = 0]
    /\ kret' = [kret EXCEPT ![c] = chans[kch[c]].produced]
    /\ kpc' = [kpc EXCEPT ![c] = "assert"]
    /\ UNCHANGED <<chans, kch, kjoin, kafter, kstatus, cachedModels, modelsLoaded, loads>>
    /\ UNCHANGED <<breakerVars, proxyVars, poolVars, authVars, extraVars>>

\* return <-ch: the buffered value, or the zero value once the channel is
\* closed and drained; blocks while it is open and empty
CoalesceReceive(c) ==
    /\ kpc[c] = "wait"
    /\ LET ch == chans[kch[c]] IN
       \/ /\ ch.buf # <<>>
          /\ kret' = [kret EXCEPT ![c] = Head(ch.buf)]
          /\ chans' = [chans EXCEPT ![kch[c]].buf = Tail(@)]
       \/ /\ ch.buf = <<>>
          /\ ch.closed
          /\ kret' = [kret EXCEPT ![c] = Nil]
          /\ UNCHANGED chans
    /\ kpc' = [kpc EXCEPT ![c] = "assert"]
    /\ UNCHANGED <<requests, kch, kjoin, kafter, kstatus, cachedModels, modelsLoaded, loads>>
    /\ UNCHANGED <<breakerVars, proxyVars, poolVars, authVars, extraVars>>

\* modelList := result.(*transform.ModelList): a nil result panics, and
\* RecoveryMiddleware answers 500; otherwise the list is encoded with 200
ModelsRespond(c) ==
    /\ kpc[c] = "assert"
    /\ kstatus' = [kstatus EXCEPT ![c] = IF kret[c] = Nil THEN 500 ELSE 200]
    /\ kpc' = [kpc EXCEPT ![c] = "done"]
    /\ UNCHANGED <<requests, chans, kch, kjoin, kafter, kret, cachedModels, modelsLoaded, loads>>
    /\ UNCHANGED <<breakerVars, proxyVars, poolVars, authVars, extraVars>>

\* the client sends its next /v1/models request
ModelsNextRequest(c) ==
    /\ kpc[c] = "done"
    /\ kpc' = [kpc EXCEPT ![c] = "idle"]
    /\ kch' = [kch EXCEPT ![c] = 0]
    /\ kjoin' = [kjoin EXCEPT ![c] = FALSE]
    /\ kafter' = [kafter EXCEPT ![c] = FALSE]
    /\ kret' = [kret EXCEPT ![c] = Nil]
    /\ kstatus' = [kstatus EXCEPT ![c] = 0]
    /\ UNCHANGED <<requests, chans, cachedModels, modelsLoaded, loads>>
    /\ UNCHANGED <<breakerVars, proxyVars, poolVars, authVars, extraVars>>

\* the scheduler runs every goroutine that is inside CoalesceRequest and can
\* take a step; fn() returns
FairCoalesce ==
    \A c \in Callers :
        WF_vars(LoadModels(c) \/ CoalesceSend(c) \/ CoalesceClose(c)
                \/ CoalesceCleanup(c) \/ CoalesceReceive(c))

NextCoalesce ==
    \/ \E c \in Callers : CoalesceEnter(c)
    \/ \E c \in Callers : LoadModels(c)
    \/ \E c \in Callers : CoalesceSend(c)
    \/ \E c \in Callers : CoalesceClose(c)
    \/ \E c \in Callers : CoalesceCleanup(c)
    \/ \E c \in Callers : CoalesceReceive(c)
    \/ \E c \in Callers : ModelsRespond(c)
    \/ \E c \in Callers : ModelsNextRequest(c)

----------------------------------------------------------------------------
(* Proxy pipeline, proxy.go: Handler, processProxyRequest, makeRequestWithRetry *)

maxChatRetries == 3
statusCodeServerError == 500
statusCodeTooManyRequests == 429
statusCodeRequestTimeout == 408
maxRequestBodySize == 5 * 1024 * 1024

\* A string is a sequence of text fragments; strings.Contains looks for a
\* contiguous run of fragments.
Contains(str, sub) ==
    \E i \in 1..(Len(str) - Len(sub) + 1) : SubSeq(str, i, i + Len(sub) - 1) = sub

\* the nil error
NilErr == <<>>

\* fmt.Errorf("method not allowed: %s", r.Method)
ErrMethod(m) == <<"method not allowed", ": ", m>>
\* fmt.Errorf("payload too large: %w", err)
ErrTooLarge == <<"payload too large", ": ", "http: request body too large">>
\* fmt.Errorf("bad request: failed to read request body: %w", err)
ErrReadBody == <<"bad request", ": failed to read request body: ", "unexpected EOF">>
\* fmt.Errorf("bad request: empty request body")
ErrEmpty == <<"bad request", ": empty request body">>
\* fmt.Errorf("bad request: invalid JSON: %w", jsonErr)
ErrJSON == <<"bad request", ": invalid JSON: ", "unexpected end of JSON input">>
\* fmt.Errorf("bad request: model '%s' is not allowed by allowed_models in config", input.Model)
ErrModel(m) ==
    <<"bad request", ": model '">> \o m \o <<"' is not allowed by allowed_models in config">>
\* NewAuthError("token validation failed", tokenErr)
ErrToken == <<"token validation failed", ": ", "no valid token">>
\* fmt.Errorf("unsupported proxy path: %s", r.URL.Path)
ErrPath(p) == <<"unsupported proxy path", ": ", p>>
\* NewNetworkError("proxy_request", targetURL, "failed to complete request after retries", err)
ErrNetwork == <<"failed to complete request after retries">>
\* a read or write error of the response copy
ErrCopy == <<"response copy failed">>

\* the switch without its "token validation failed" case
ErrorToStatusNoTokenCase(msg) ==
    IF Contains(msg, <<"authentication error">>) THEN 401
    ELSE IF Contains(msg, <<"bad request">>) THEN 400
    ELSE IF Contains(msg, <<"method not allowed">>) THEN 405
    ELSE 500

\* Handler's switch on err.Error(): the first matching substring decides
ErrorToStatus(msg) ==
    IF Contains(msg, <<"authentication error">>) THEN 401
    ELSE IF Contains(msg, <<"token validation failed">>) THEN 401
    ELSE IF Contains(msg, <<"bad request">>) THEN 400
    ELSE IF Contains(msg, <<"method not allowed">>) THEN 405
    ELSE 500

\* the inputs a client controls
Methods == {"POST", "GET"}
BodyLens == {0, maxRequestBodySize, maxRequestBodySize + 1}
ModelNames == {<<>>, <<"gpt-4o">>, <<"o3">>, <<"x ", "authentication error">>}
Paths == {"/v1/chat/completions", "/v1/completions", "/v1/other"}

\* Config.AllowedModels: nil, or the list of the README
AllowLists == {<<>>, <<<<"gpt-4o">>, <<"claude-3.7-sonnet">>>>}

\* what one httpClient.Do can end with
Statuses == {200, 408, 429, 499, 500, 599, 600}
TransportError == [err |-> TRUE, status |-> 0]
Response(st) == [err |-> FALSE, status |-> st]
Outcomes == {TransportError} \cup {Response(st) : st \in Statuses}

\* isRetriableError that forgets the request-timeout status 408
isRetriableErrorNo408(statusCode, err) ==
    \/ err
    \/ statusCode >= statusCodeServerError
    \/ statusCode = statusCodeTooManyRequests

isRetriableError(statusCode, err) ==
    \/ err
    \/ statusCode >= statusCodeServerError
    \/ statusCode = statusCodeTooManyRequests
    \/ statusCode = statusCodeRequestTimeout

\* the AllowedModels loop of processProxyRequest
ModelAllowed(m, allow) ==
    Len(allow) > 0 => \E i \in 1..Len(allow) : m = allow[i]

\* processProxyRequest up to the token check: the error it returns, if any
\* (r.readOK: the body could be read to its end)
ValidationError(r, allow) ==
    IF r.method # "POST" THEN ErrMethod(r.method)
    ELSE IF r.bodyLen > maxRequestBodySize THEN ErrTooLarge
    ELSE IF ~r.readOK THEN ErrReadBody
    ELSE IF r.bodyLen = 0 THEN ErrEmpty
    ELSE IF ~r.json THEN ErrJSON
    ELSE IF ~ModelAllowed(r.model, allow) THEN ErrModel(r.model)
    ELSE NilErr

\* nothing of the request has been read yet
NoReq == [method |-> "", bodyLen |-> 0, readOK |-> FALSE, json |-> FALSE,
          model |-> <<>>, path |-> ""]
NoAdmission == [cb |-> NewCircuitBreaker, at |-> 0]
NoOutcome == [err |-> FALSE, status |-> 0]
NoResult == [kind |-> "none", status |-> 0]

InitProxy ==
    /\ allowedModels \in AllowLists
    /\ req = NoReq
    /\ hpc = "idle"
    /\ wpc = "none"
    /\ ctxDone = FALSE
    /\ attempt = 0
    /\ lastOutcome = NoOutcome
    /\ n5xx = 0
    /\ adm = NoAdmission
    /\ hbranch = "none"
    /\ upstreamCalls = 0
    /\ retryRes = NoResult
    /\ notes = <<>>
    /\ tokenChecks = 0
    /\ headersSent = FALSE
    /\ wire = <<>>
    /\ copied = "none"
    /\ doneCh = <<>>

\* the handler has returned and the worker, if any, has finished
Finished == hpc = "returned" /\ wpc \in {"none", "finished"}

\* the status line the client receives: the first WriteHeader wins
ClientStatus == IF wire = <<>> THEN 0 ELSE wire[1]

\* the per-request state before a request arrives
NoRequestState ==
    /\ req' = NoReq
    /\ adm' = NoAdmission
    /\ hbranch' = "none"
    /\ wpc' = "none"
    /\ ctxDone' = FALSE
    /\ attempt' = 0
    /\ lastOutcome' = NoOutcome
    /\ n5xx' = 0
    /\ upstreamCalls' = 0
    /\ retryRes' = NoResult
    /\ notes' = <<>>
    /\ tokenChecks' = 0
    /\ headersSent' = FALSE
    /\ wire' = <<>>
    /\ copied' = "none"
    /\ doneCh' = <<>>

\* handler and worker are through with the request
RequestEnd ==
    /\ Finished
    /\ hpc' = "idle"
    /\ NoRequestState
    /\ UNCHANGED <<allowedModels, breakerVars, coalVars, poolVars, authVars, extraVars>>

\* a client request arrives; Handler derives ctx from it
NewRequest ==
    /\ hpc = "idle"
    /\ hpc' = "admit"
    /\ UNCHANGED <<allowedModels, req, adm, hbranch, wpc, ctxDone, attempt, lastOutcome, n5xx,
                   upstreamCalls, retryRes, notes, tokenChecks, copied, headersSent, wire,
                   doneCh, breakerVars, coalVars, poolVars, authVars, extraVars>>

\* the deadline of ctx passes, or the client goes away
CtxExpire ==
    /\ hpc \in {"admit", "wait"}
    /\ ~ctxDone
    /\ ctxDone' = TRUE
    /\ UNCHANGED <<allowedModels, req, adm, hbranch, hpc, wpc, attempt, lastOutcome, n5xx, upstreamCalls,
                   retryRes, notes, tokenChecks, copied, headersSent, wire, doneCh,
                   breakerVars, coalVars, poolVars, authVars, extraVars>>

\* Handler: the breaker check; 503 when rejected, else the job is submitted
HandlerAdmit ==
    /\ hpc = "admit"
    /\ LET d == canExecuteRead(cb, now)
           after == IF d = "upgrade" THEN canExecuteUpgrade(cb) ELSE cb
       IN /\ cb' = after
          /\ adm' = [cb |-> cb, at |-> now]
          /\ IF d = "reject"
             THEN /\ wire' = Append(wire, 503)
                  /\ hpc' = "returned"
                  /\ hbranch' = "rejected"
                  /\ ctxDone' = TRUE
                  /\ wpc' = wpc
             ELSE /\ hpc' = "wait"
                  /\ wpc' = "validate"
                  /\ UNCHANGED <<wire, ctxDone, hbranch>>
    /\ UNCHANGED <<allowedModels, req, attempt, lastOutcome, n5xx, upstreamCalls, retryRes,
                   notes, tokenChecks, copied, headersSent, doneCh>>
    /\ UNCHANGED <<now, inflight, cpc, lastCall, consec, coalVars, poolVars, authVars, extraVars>>

\* Handler: case err := <-done; the deferred cancel runs on return
HandlerDone ==
    /\ hpc = "wait"
    /\ doneCh # <<>>
    /\ LET err == Head(doneCh) IN
       wire' = IF err # NilErr /\ ~headersSent
               THEN Append(wire, ErrorToStatus(err))
               ELSE wire
    /\ doneCh' = Tail(doneCh)
    /\ hpc' = "returned"
    /\ hbranch' = "done"
    /\ ctxDone' = TRUE
    /\ UNCHANGED <<allowedModels, req, adm, wpc, attempt, lastOutcome, n5xx, upstreamCalls,
                   retryRes, notes, tokenChecks, copied, headersSent, breakerVars, coalVars, poolVars, authVars, extraVars>>

\* Handler: case <-ctx.Done(); it reads respWrapper.headersSent
HandlerTimeout ==
    /\ hpc = "wait"
    /\ ctxDone
    /\ hpc' = IF headersSent THEN "returned" ELSE "timeoutWrite"
    /\ hbranch' = "timeout"
    /\ UNCHANGED <<allowedModels, req, adm, wpc, ctxDone, attempt, lastOutcome, n5xx, upstreamCalls,
                   retryRes, notes, tokenChecks, copied, headersSent, wire, doneCh,
                   breakerVars, coalVars, poolVars, authVars, extraVars>>

\* Handler: http.Error(w, "Request timeout", 408), on the writer itself
HandlerTimeoutWrite ==
    /\ hpc = "timeoutWrite"
    /\ wire' = Append(wire, 408)
    /\ hpc' = "returned"
    /\ UNCHANGED <<allowedModels, req, adm, hbranch, wpc, ctxDone, attempt, lastOutcome, n5xx, upstreamCalls,
                   retryRes, notes, tokenChecks, copied, headersSent, doneCh,
                   breakerVars, coalVars, poolVars, authVars, extraVars>>

\* the worker returns err from processProxyRequest: done <- err
WorkerReturn(err) ==
    /\ doneCh' = Append(doneCh, err)
    /\ wpc' = "finished"

\* processProxyRequest: method, body, JSON and allow-list checks, on what
\* the client sent
WorkerValidate ==
    /\ wpc = "validate"
    /\ \E m \in Methods, l \in BodyLens, j \in BOOLEAN, md \in ModelNames, readOK \in BOOLEAN :
         LET r == [req EXCEPT !.method = m, !.bodyLen = l, !.readOK = readOK,
                              !.json = j, !.model = md]
             err == ValidationError(r, allowedModels)
         IN /\ req' = r
            /\ IF err # NilErr
               THEN WorkerReturn(err)
               ELSE wpc' = "token" /\ UNCHANGED doneCh
    /\ UNCHANGED <<allowedModels, adm, hbranch, hpc, ctxDone, attempt, lastOutcome, n5xx, upstreamCalls,
                   retryRes, notes, tokenChecks, copied, headersSent, wire,
                   breakerVars, coalVars, poolVars, authVars, extraVars>>

\* processProxyRequest: s.authService.EnsureValidToken(s.config)
WorkerToken ==
    /\ wpc = "token"
    /\ tokenChecks' = tokenChecks + 1
    /\ UNCHANGED copied
    /\ \E ok \in BOOLEAN :
         IF ok THEN wpc' = "route" /\ UNCHANGED doneCh
         ELSE WorkerReturn(ErrToken)
    /\ UNCHANGED <<allowedModels, req, adm, hbranch, hpc, ctxDone, attempt, lastOutcome, n5xx, upstreamCalls,
                   retryRes, notes, headersSent, wire, breakerVars, coalVars, poolVars, authVars, extraVars>>

\* processProxyRequest: the target URL; makeRequestWithRetry starts at attempt 1
WorkerRoute ==
    /\ wpc = "route"
    /\ \E pa \in Paths :
         /\ req' = [req EXCEPT !.path = pa]
         /\ IF pa \in {"/v1/completions", "/v1/chat/completions"}
            THEN wpc' = "attempt" /\ attempt' = 1 /\ UNCHANGED doneCh
            ELSE WorkerReturn(ErrPath(pa)) /\ UNCHANGED attempt
    /\ UNCHANGED <<allowedModels, adm, hbranch, hpc, ctxDone, lastOutcome, n5xx, upstreamCalls,
                   retryRes, notes, tokenChecks, copied, headersSent, wire,
                   breakerVars, coalVars, poolVars, authVars, extraVars>>

\* what the loop does with the outcome o of attempt n: "backoff" or "return"
AfterAttempt(o, n) ==
    IF o.err
    THEN IF n = maxChatRetries THEN "return" ELSE "backoff"
    ELSE IF ~isRetriableError(o.status, FALSE) THEN "return"
         ELSE IF n = maxChatRetries THEN "return" ELSE "backoff"

\* the loop giving up with an error, not the last response, when the last
\* response is itself retriable
RetryResultErrorWhenExhausted(o) ==
    IF o.err \/ isRetriableError(o.status, FALSE) THEN [kind |-> "err", status |-> 0]
    ELSE [kind |-> "resp", status |-> o.status]

\* what makeRequestWithRetry returns when it returns after outcome o
RetryResult(o) ==
    IF o.err THEN [kind |-> "err", status |-> 0]
    ELSE [kind |-> "resp", status |-> o.status]

\* makeRequestWithRetry: one s.httpClient.Do; with ctx done, Do fails
\* without sending anything
WorkerAttempt ==
    /\ wpc = "attempt"
    /\ \E o \in (IF ctxDone THEN {TransportError} ELSE Outcomes) :
         /\ lastOutcome' = o
         /\ n5xx' = IF ~o.err /\ o.status >= 500 THEN n5xx + 1 ELSE n5xx
         /\ IF AfterAttempt(o, attempt) = "backoff"
            THEN wpc' = "backoff" /\ UNCHANGED retryRes
            ELSE /\ wpc' = "notify"
                 /\ retryRes' = RetryResult(o)
    /\ upstreamCalls' = IF ctxDone THEN upstreamCalls ELSE upstreamCalls + 1
    /\ UNCHANGED <<allowedModels, req, adm, hbranch, hpc, ctxDone, attempt, notes, tokenChecks, copied,
                   headersSent, wire, doneCh, breakerVars, coalVars, poolVars, authVars, extraVars>>

\* makeRequestWithRetry: the select takes <-timer.C; next attempt
WorkerBackoffTimer ==
    /\ wpc = "backoff"
    /\ attempt' = attempt + 1
    /\ wpc' = "attempt"
    /\ UNCHANGED <<allowedModels, req, adm, hbranch, hpc, ctxDone, lastOutcome, n5xx, upstreamCalls,
                   retryRes, notes, tokenChecks, copied, headersSent, wire, doneCh,
                   breakerVars, coalVars, poolVars, authVars, extraVars>>

\* a wait ended by the context handing back the response received last
backoffCtxResultLastResponse(o) == RetryResult(o)

\* what makeRequestWithRetry returns when the context ends a backoff wait
\* that followed outcome o: return nil, req.Context().Err()
backoffCtxResult(o) == [kind |-> "err", status |-> 0]

\* makeRequestWithRetry: the select takes <-req.Context().Done()
WorkerBackoffCtx ==
    /\ wpc = "backoff"
    /\ ctxDone
    /\ retryRes' = backoffCtxResult(lastOutcome)
    /\ wpc' = "notify"
    /\ UNCHANGED <<allowedModels, req, adm, hbranch, hpc, ctxDone, attempt, lastOutcome, n5xx, upstreamCalls,
                   notes, tokenChecks, copied, headersSent, wire, doneCh,
                   breakerVars, coalVars, poolVars, authVars, extraVars>>

\* processProxyRequest after the retry loop: the breaker is notified
WorkerNotify ==
    /\ wpc = "notify"
    /\ IF retryRes.kind = "resp" /\ retryRes.status < statusCodeServerError
       THEN /\ cb' = onSuccess(cb)
            /\ consec' = 0
            /\ notes' = Append(notes, "success")
       ELSE /\ cb.failureCount < MaxFailures
            /\ cb' = onFailure(cb, now)
            /\ consec' = consec + 1
            /\ notes' = Append(notes, "failure")
    /\ IF retryRes.kind = "err"
       THEN WorkerReturn(ErrNetwork)
       ELSE wpc' = "writeHeader" /\ UNCHANGED doneCh
    /\ UNCHANGED <<allowedModels, req, adm, hbranch, hpc, ctxDone, attempt, lastOutcome, n5xx, upstreamCalls,
                   retryRes, tokenChecks, copied, headersSent, wire>>
    /\ UNCHANGED <<now, inflight, cpc, lastCall, coalVars, poolVars, authVars, extraVars>>

\* responseWrapper.WriteHeader(resp.StatusCode)
WorkerWriteHeader ==
    /\ wpc = "writeHeader"
    /\ IF ~headersSent
       THEN headersSent' = TRUE /\ wire' = Append(wire, retryRes.status)
       ELSE UNCHANGED <<headersSent, wire>>
    /\ wpc' = "copy"
    /\ UNCHANGED <<allowedModels, req, adm, hbranch, hpc, ctxDone, attempt, lastOutcome, n5xx, upstreamCalls,
                   retryRes, notes, tokenChecks, copied, doneCh, breakerVars, coalVars, poolVars, authVars, extraVars>>

\* a retry loop that leaves the body of the response it returns open
BodyClosedNever == FALSE

\* the retry loop closed the body of a retriable response before returning it
BodyClosed == retryRes.kind = "resp" /\ isRetriableError(retryRes.status, FALSE)

\* handleStreamingResponse / handleRegularResponse: the copy ends with nil,
\* the whole body written, or with a read or write error after some of the
\* body or none of it; a closed body cannot be read: its first Read fails
WorkerCopy ==
    /\ wpc = "copy"
    /\ headersSent' = TRUE
    /\ IF BodyClosed
       THEN copied' = "none" /\ WorkerReturn(ErrCopy)
       ELSE \/ copied' = "all" /\ WorkerReturn(NilErr)
            \/ copied' \in {"none", "part"} /\ WorkerReturn(ErrCopy)
    /\ UNCHANGED <<allowedModels, req, adm, hbranch, hpc, ctxDone, attempt, lastOutcome, n5xx, upstreamCalls,
                   retryRes, notes, tokenChecks, wire, breakerVars, coalVars, poolVars, authVars, extraVars>>

NextProxy ==
    \/ Tick
    \/ NewRequest
    \/ RequestEnd
    \/ CtxExpire
    \/ HandlerAdmit
    \/ HandlerDone
    \/ HandlerTimeout
    \/ HandlerTimeoutWrite
    \/ WorkerValidate
    \/ WorkerToken
    \/ WorkerRoute
    \/ WorkerAttempt
    \/ WorkerBackoffTimer
    \/ WorkerBackoffCtx
    \/ WorkerNotify
    \/ WorkerWriteHeader
    \/ WorkerCopy

----------------------------------------------------------------------------
(* Worker pool, server.go: NewWorkerPool, start, Submit, Stop; the jobs of   *)
(* job set HandlerJobs are submitted by ProxyService.Handler                  *)

workerMultiplier == 2

Workers == 1..PoolWorkers
Jobs == 1..NumJobs
\* the jobs whose submitter is a request handler with a deadline
HandlerJobs == {1}
\* cap(jobQueue)
QueueCap == PoolWorkers * workerMultiplier
\* done := make(chan error, 1)
doneCap == 1
\* NewProxyError("request_processing", "worker panic during request processing", ...)
ErrWorkerPanic == <<"worker panic during request processing">>
\* what processProxyRequest returns: nil or an error of the pipeline
PipelineErrors == {NilErr, ErrNetwork}

\* NewWorkerPool: empty queue, open quit channel, every worker in its select
InitPool ==
    /\ jobQueue = <<>>
    /\ quit = FALSE
    /\ wst = [w \in Workers |-> "select"]
    /\ wjob = [w \in Workers |-> 0]
    /\ jst = [j \in Jobs |-> "new"]
    /\ accepted = <<>>
    /\ started = <<>>
    /\ stopst = "none"
    /\ crashed = FALSE
    /\ hexp = [j \in HandlerJobs |-> FALSE]
    /\ hret = [j \in HandlerJobs |-> FALSE]
    /\ jdone = [j \in HandlerJobs |-> <<>>]
    /\ jsent = [j \in HandlerJobs |-> <<>>]

\* a caller reaches wp.Submit(job); for a handler its context exists by now
SubmitCall(j) ==
    /\ ~crashed
    /\ jst[j] = "new"
    /\ jst' = [jst EXCEPT ![j] = "submit"]
    /\ UNCHANGED <<jobQueue, quit, wst, wjob, accepted, started, stopst, crashed, hexp, hret, jdone, jsent>>
    /\ UNCHANGED <<breakerVars, coalVars, proxyVars, authVars, extraVars>>

\* Submit: wp.jobQueue <- job completes once the buffer has room
Submit(j) ==
    /\ ~crashed
    /\ jst[j] = "submit"
    /\ Len(jobQueue) < QueueCap
    /\ jobQueue' = Append(jobQueue, j)
    /\ accepted' = Append(accepted, j)
    /\ jst' = [jst EXCEPT ![j] = "queued"]
    /\ UNCHANGED <<quit, wst, wjob, started, stopst, crashed, hexp, hret, jdone, jsent>>
    /\ UNCHANGED <<breakerVars, coalVars, proxyVars, authVars, extraVars>>

\* start: the select takes case job := <-wp.jobQueue (also with quit closed:
\* select chooses among its ready cases)
PoolWorkerTake(w) ==
    /\ ~crashed
    /\ wst[w] = "select"
    /\ jobQueue # <<>>
    /\ LET j == Head(jobQueue) IN
       /\ jobQueue' = Tail(jobQueue)
       /\ started' = Append(started, j)
       /\ wst' = [wst EXCEPT ![w] = "running"]
       /\ wjob' = [wjob EXCEPT ![w] = j]
       /\ jst' = [jst EXCEPT ![j] = "running"]
    /\ UNCHANGED <<quit, accepted, stopst, crashed, hexp, hret, jdone, jsent>>
    /\ UNCHANGED <<breakerVars, coalVars, proxyVars, authVars, extraVars>>

\* a job of Handler whose deferred function sends whether or not it recovered
doneSendsFromDeferAlways(err, panicked) ==
    IF panicked THEN <<ErrWorkerPanic>> ELSE <<err, ErrWorkerPanic>>

\* what a job of Handler sends on done: the error of processProxyRequest
\* when it returns, the error made by the deferred recover when it panics
doneSends(err, panicked) ==
    IF panicked THEN <<ErrWorkerPanic>> ELSE <<err>>

\* start: job() returns; the worker is back in its select. A job of Handler
\* has sent on its done channel before (a send blocks while the buffer is
\* full)
PoolJobReturn(w) ==
    /\ ~crashed
    /\ wst[w] = "running"
    /\ IF wjob[w] \in HandlerJobs
       THEN \E err \in PipelineErrors, panicked \in BOOLEAN :
              LET sends == doneSends(err, panicked) IN
              /\ Len(jdone[wjob[w]]) + Len(sends) <= doneCap
              /\ jdone' = [jdone EXCEPT ![wjob[w]] = @ \o sends]
              /\ jsent' = [jsent EXCEPT ![wjob[w]] = @ \o sends]
       ELSE UNCHANGED <<jdone, jsent>>
    /\ wst' = [wst EXCEPT ![w] = "select"]
    /\ jst' = [jst EXCEPT ![wjob[w]] = "done"]
    /\ wjob' = [wjob EXCEPT ![w] = 0]
    /\ UNCHANGED <<jobQueue, quit, accepted, started, stopst, crashed, hexp, hret>>
    /\ UNCHANGED <<breakerVars, coalVars, proxyVars, authVars, extraVars>>

\* start: job() panics; the worker goroutine has no recover, so the panic
\* ends the process and with it every worker (the jobs of Handler recover
\* by themselves and return)
PoolJobPanic(w) ==
    /\ ~crashed
    /\ wst[w] = "running"
    /\ wjob[w] \notin HandlerJobs
    /\ crashed' = TRUE
    /\ wst' = [v \in Workers |-> "dead"]
    /\ UNCHANGED <<jobQueue, quit, wjob, jst, accepted, started, stopst, hexp, hret, jdone, jsent>>
    /\ UNCHANGED <<breakerVars, coalVars, proxyVars, authVars, extraVars>>

\* start: the select takes case <-wp.quit; the deferred wg.Done runs
PoolWorkerQuit(w) ==
    /\ ~crashed
    /\ wst[w] = "select"
    /\ quit
    /\ wst' = [wst EXCEPT ![w] = "exited"]
    /\ UNCHANGED <<jobQueue, quit, wjob, jst, accepted, started, stopst, crashed, hexp, hret, jdone, jsent>>
    /\ UNCHANGED <<breakerVars, coalVars, proxyVars, authVars, extraVars>>

\* Stop: close(wp.quit)
Stop ==
    /\ ~crashed
    /\ stopst = "none"
    /\ quit' = TRUE
    /\ stopst' = "waiting"
    /\ UNCHANGED <<jobQueue, wst, wjob, jst, accepted, started, crashed, hexp, hret, jdone, jsent>>
    /\ UNCHANGED <<breakerVars, coalVars, proxyVars, authVars, extraVars>>

\* Stop: wp.wg.Wait() returns
StopReturn ==
    /\ ~crashed
    /\ stopst = "waiting"
    /\ \A w \in Workers : wst[w] = "exited"
    /\ stopst' = "returned"
    /\ UNCHANGED <<jobQueue, quit, wst, wjob, jst, accepted, started, crashed, hexp, hret, jdone, jsent>>
    /\ UNCHANGED <<breakerVars, coalVars, proxyVars, authVars, extraVars>>

\* Handler: the deadline of ctx passes
JobDeadline(j) ==
    /\ ~crashed
    /\ jst[j] # "new"
    /\ ~hret[j]
    /\ ~hexp[j]
    /\ hexp' = [hexp EXCEPT ![j] = TRUE]
    /\ UNCHANGED <<jobQueue, quit, wst, wjob, jst, accepted, started, stopst, crashed, hret, jdone, jsent>>
    /\ UNCHANGED <<breakerVars, coalVars, proxyVars, authVars, extraVars>>

\* Handler: Submit has returned and the select takes <-done or <-ctx.Done()
JobHandlerReturn(j) ==
    /\ ~crashed
    /\ jst[j] \in {"queued", "running", "done"}
    /\ ~hret[j]
    /\ \/ /\ jdone[j] # <<>>
          /\ jdone' = [jdone EXCEPT ![j] = Tail(@)]
       \/ /\ hexp[j]
          /\ UNCHANGED jdone
    /\ hret' = [hret EXCEPT ![j] = TRUE]
    /\ UNCHANGED <<jobQueue, quit, wst, wjob, jst, accepted, started, stopst, crashed, hexp, jsent>>
    /\ UNCHANGED <<breakerVars, coalVars, proxyVars, authVars, extraVars>>

NextPool ==
    \/ \E j \in Jobs : SubmitCall(j)
    \/ \E j \in Jobs : Submit(j)
    \/ \E w \in Workers : PoolWorkerTake(w)
    \/ \E w \in Workers : PoolJobReturn(w)
    \/ \E w \in Workers : PoolJobPanic(w)
    \/ \E w \in Workers : PoolWorkerQuit(w)
    \/ Stop
    \/ StopReturn
    \/ \E j \in HandlerJobs : JobDeadline(j)
    \/ \E j \in HandlerJobs : JobHandlerReturn(j)

\* the scheduler runs every goroutine that can run, and every job ends
FairPool ==
    /\ \A w \in Workers : WF_vars(PoolWorkerTake(w) \/ PoolWorkerQuit(w))
    /\ \A w \in Workers : WF_vars(PoolJobReturn(w) \/ PoolJobPanic(w))
    /\ \A j \in Jobs : WF_vars(Submit(j))
    /\ \A j \in HandlerJobs : WF_vars(JobHandlerReturn(j))
    /\ WF_vars(StopReturn)

----------------------------------------------------------------------------
(* Token service, config.go: EnsureValidTokenWithConfig, RefreshToken,       *)
(* RefreshTokenWithContext, getCopilotToken, updateTokenInDatabase           *)

maxRefreshRetries == 3
baseRetryDelay == 2

\* time.Now().Unix() at the call, and cfg.ExpiresAt relative to it
NowValues == {0, 1700000000}
ExpiryOffsets == {0 - 3600, 0 - 1, 0, 299, 300, 301, 3600}
\* len(cfg.GitHubToken): none, shorter than 10 bytes, 10 bytes or more
GitHubTokenLens == {0, 9, 10}

\* the credential record before any call
NoToken == [copilot |-> FALSE, githubLen |-> 0, expiresAt |-> 0]
NoAuthCall == [op |-> "none", override |-> FALSE, ctxAtEntry |-> FALSE, record |-> NoToken]

InitAuth ==
    /\ tok = NoToken
    /\ tnow = 0
    /\ apc = "idle"
    /\ acall = NoAuthCall
    /\ rattempt = 0
    /\ rctxDone = FALSE
    /\ exchanges = 0
    /\ storeUpdates = 0
    /\ refreshes = 0
    /\ ares = "none"
    /\ cancelledIn = "none"
    /\ rerrs = <<>>
    /\ rwaits = <<>>
    /\ aerr = <<>>

\* EnsureValidTokenWithConfig with a strict comparison
needsRefreshStrict(expiresAt, t) == expiresAt < t + 300

\* EnsureValidTokenWithConfig: cfg.ExpiresAt <= now+300
needsRefresh(expiresAt, t) == expiresAt <= t + 300

\* a select that never takes its ctx.Done() case
backoffSelectTimerOnly(done) == "timer"

\* RefreshTokenWithContext: select { case <-time.After(waitTime): ... case
\* <-ctx.Done(): ... }. The timer is made on entry and has seconds to run, so
\* a context that is done on entry, or becomes done while the select blocks,
\* decides the select; the timer decides it when it fires first.
backoffSelect(done) == IF done THEN "ctx" ELSE "timer"

\* the Error() text of an AuthError without cause holds its message
NewAuthError(message) == message

\* an error of httpClient.Do or of the JSON decoder
ErrTransport == <<"Post: ", "connection refused">>
ErrDecode == <<"unexpected end of JSON input">>
\* NewNetworkError(operation, url, "HTTP <code> response", cause)
ErrHTTPStatus == <<"HTTP 500 response">>

\* a nil error
NoErr == <<>>
\* ctx.Err() of a cancelled context
ErrCanceled == <<"context canceled">>
\* what an injected refreshFunc may return as its error
ErrRefreshFunc == <<"refreshFunc error">>
\* getCopilotToken's errors: the request failed, the status was not 200, the
\* body did not decode
ExchangeErrors == {ErrTransport, ErrHTTPStatus, ErrDecode}
\* updateTokenInDatabase's errors
UpdateErrors == {ErrTransport, ErrHTTPStatus}

\* the call returns err (res is its kind)
AuthReturn(res, err) ==
    /\ ares' = res
    /\ aerr' = err
    /\ apc' = "returned"

\* a caller invokes EnsureValidTokenWithConfig(email, cfg) or
\* RefreshTokenWithContext(ctx, email, cfg); RefreshToken passes
\* context.Background(), which is never done
AuthCall ==
    /\ apc = "idle"
    /\ \E op \in {"ensure", "refresh"}, ov \in BOOLEAN, c \in BOOLEAN,
          cp \in BOOLEAN, gl \in GitHubTokenLens, t \in NowValues, d \in ExpiryOffsets :
         LET rec == [copilot |-> cp, githubLen |-> gl, expiresAt |-> t + d] IN
         /\ op = "ensure" => ~c
         /\ tok' = rec
         /\ tnow' = t
         /\ acall' = [op |-> op, override |-> ov, ctxAtEntry |-> c, record |-> rec]
         /\ rctxDone' = c
         /\ apc' = IF op = "ensure" THEN "ensure" ELSE "refresh"
    /\ UNCHANGED <<rattempt, exchanges, storeUpdates, refreshes, ares, cancelledIn,
                   rerrs, rwaits, aerr>>
    /\ UNCHANGED <<breakerVars, coalVars, proxyVars, poolVars, extraVars>>

\* EnsureValidTokenWithConfig
EnsureValidTokenWithConfig ==
    /\ apc = "ensure"
    /\ IF ~tok.copilot
       THEN /\ AuthReturn("err", NewAuthError(<<"no token available - authentication required">>))
            /\ UNCHANGED refreshes
       ELSE IF needsRefresh(tok.expiresAt, tnow)
            THEN /\ refreshes' = refreshes + 1
                 /\ apc' = "refresh"
                 /\ UNCHANGED <<ares, aerr>>
            ELSE AuthReturn("ok", NoErr) /\ UNCHANGED refreshes
    /\ UNCHANGED <<tok, tnow, acall, rattempt, rctxDone, exchanges, storeUpdates, cancelledIn,
                   rerrs, rwaits>>
    /\ UNCHANGED <<breakerVars, coalVars, proxyVars, poolVars, extraVars>>

\* a refresh that never finds the GitHub token missing
noGitHubTokenNever(githubLen) == FALSE

\* RefreshTokenWithContext: cfg.GitHubToken == ""
noGitHubToken(githubLen) == githubLen = 0

\* RefreshTokenWithContext up to the loop: the injected refreshFunc, if any,
\* decides; without a GitHub token there is nothing to exchange
RefreshEntry ==
    /\ apc = "refresh"
    /\ IF acall.override
       THEN /\ \/ AuthReturn("ok", NoErr)
               \/ AuthReturn("err", ErrRefreshFunc)
            /\ UNCHANGED rattempt
       ELSE IF noGitHubToken(tok.githubLen)
            THEN /\ AuthReturn("err", NewAuthError(<<"no GitHub token available for refresh">>))
                 /\ UNCHANGED rattempt
            ELSE /\ rattempt' = 1
                 /\ apc' = "attempt"
                 /\ UNCHANGED <<ares, aerr>>
    /\ UNCHANGED <<tok, tnow, acall, rctxDone, exchanges, storeUpdates, refreshes, cancelledIn,
                   rerrs, rwaits>>
    /\ UNCHANGED <<breakerVars, coalVars, proxyVars, poolVars, extraVars>>

\* what the API-key endpoint may give as expires_at
UpstreamExpiries(t) == {0 - 1, 0, t + 1800}

\* a backoff that grows with the attempt, not with its square
waitTimeLinear(n) == baseRetryDelay * n

\* RefreshTokenWithContext: waitTime := time.Duration(baseRetryDelay*attempt*
\* attempt) * time.Second, in seconds
waitTime(n) == baseRetryDelay * n * n

\* one getCopilotToken: githubToken[:10] panics on a shorter token; the
\* request is made without the context; the outcome is an error, or the
\* token and expires_at of the answer, which go to cfg as they come. After
\* an error the last attempt returns it, an earlier one makes the timer of
\* its wait
RefreshAttempt ==
    /\ apc = "attempt"
    /\ IF tok.githubLen < 10
       THEN /\ AuthReturn("panic", NoErr)
            /\ UNCHANGED <<exchanges, tok, rerrs, rwaits>>
       ELSE /\ exchanges' = exchanges + 1
            /\ \/ \E hasToken \in BOOLEAN, exp \in UpstreamExpiries(tnow) :
                    /\ tok' = [tok EXCEPT !.copilot = hasToken, !.expiresAt = exp]
                    /\ apc' = "update"
                    /\ UNCHANGED <<ares, aerr, rerrs, rwaits>>
               \/ \E err \in ExchangeErrors :
                    /\ UNCHANGED tok
                    /\ rerrs' = Append(rerrs, err)
                    /\ IF rattempt = maxRefreshRetries
                       THEN AuthReturn("err", err) /\ UNCHANGED rwaits
                       ELSE /\ rwaits' = Append(rwaits, waitTime(rattempt))
                            /\ apc' = "backoff"
                            /\ UNCHANGED <<ares, aerr>>
    /\ UNCHANGED <<tnow, acall, rattempt, rctxDone, storeUpdates, refreshes, cancelledIn>>
    /\ UNCHANGED <<breakerVars, coalVars, proxyVars, poolVars, extraVars>>

\* the backoff select takes <-time.After(waitTime): next attempt
RefreshBackoffTimer ==
    /\ apc = "backoff"
    /\ backoffSelect(rctxDone) = "timer"
    /\ rattempt' = rattempt + 1
    /\ apc' = "attempt"
    /\ UNCHANGED <<tok, tnow, acall, rctxDone, exchanges, storeUpdates, refreshes, ares,
                   cancelledIn, rerrs, rwaits, aerr>>
    /\ UNCHANGED <<breakerVars, coalVars, proxyVars, poolVars, extraVars>>

\* the backoff select takes <-ctx.Done(): return ctx.Err()
RefreshBackoffCtx ==
    /\ apc = "backoff"
    /\ backoffSelect(rctxDone) = "ctx"
    /\ AuthReturn("ctxErr", ErrCanceled)
    /\ UNCHANGED <<tok, tnow, acall, rattempt, rctxDone, exchanges, storeUpdates, refreshes,
                   cancelledIn, rerrs, rwaits>>
    /\ UNCHANGED <<breakerVars, coalVars, proxyVars, poolVars, extraVars>>

\* updateTokenInDatabase(email, cfg), made with context.Background()
RefreshUpdate ==
    /\ apc = "update"
    /\ storeUpdates' = storeUpdates + 1
    /\ \/ AuthReturn("ok", NoErr)
       \/ \E err \in UpdateErrors :
            AuthReturn("err", <<"failed to update token in database: ">> \o err)
    /\ UNCHANGED <<tok, tnow, acall, rattempt, rctxDone, exchanges, refreshes, cancelledIn,
                   rerrs, rwaits>>
    /\ UNCHANGED <<breakerVars, coalVars, proxyVars, poolVars, extraVars>>

\* the caller of RefreshTokenWithContext cancels ctx while the call runs
AuthCancel ==
    /\ acall.op = "refresh"
    /\ apc \in {"refresh", "attempt", "backoff", "update"}
    /\ ~rctxDone
    /\ rctxDone' = TRUE
    /\ cancelledIn' = apc
    /\ UNCHANGED <<tok, tnow, apc, acall, rattempt, exchanges, storeUpdates, refreshes, ares,
                   rerrs, rwaits, aerr>>
    /\ UNCHANGED <<breakerVars, coalVars, proxyVars, poolVars, extraVars>>

\* the call is over; the next one starts afresh
AuthNextCall ==
    /\ apc = "returned"
    /\ tok' = NoToken
    /\ tnow' = 0
    /\ apc' = "idle"
    /\ acall' = NoAuthCall
    /\ rattempt' = 0
    /\ rctxDone' = FALSE
    /\ exchanges' = 0
    /\ storeUpdates' = 0
    /\ refreshes' = 0
    /\ ares' = "none"
    /\ cancelledIn' = "none"
    /\ rerrs' = <<>>
    /\ rwaits' = <<>>
    /\ aerr' = NoErr
    /\ UNCHANGED <<breakerVars, coalVars, proxyVars, poolVars, extraVars>>

NextAuth ==
    \/ AuthCall
    \/ EnsureValidTokenWithConfig
    \/ RefreshEntry
    \/ RefreshAttempt
    \/ RefreshBackoffTimer
    \/ RefreshBackoffCtx
    \/ RefreshUpdate
    \/ AuthCancel
    \/ AuthNextCall

----------------------------------------------------------------------------
(* HTTP server, server.go: NewServer, Start, Stop, setupGracefulShutdown;    *)
(* every job of the pool is submitted by a request handler                   *)

\* shutdownTimeout = 10 * time.Second
shutdownTimeout == 10

\* NewServer and Start: the server listens, no request has arrived, Stop has
\* not been called
InitServer ==
    /\ listening = TRUE
    /\ rst = [r \in Jobs |-> "new"]
    /\ shutst = "none"
    /\ selapsed = 0

\* ListenAndServe: a request is accepted and its handler starts
ServerAccept(r) ==
    /\ listening
    /\ rst[r] = "new"
    /\ rst' = [rst EXCEPT ![r] = "accepted"]
    /\ UNCHANGED <<listening, shutst, selapsed>>
    /\ UNCHANGED <<breakerVars, coalVars, proxyVars, poolVars, authVars, streamVars, apiVars, cfgVars, moreVars>>

\* ProxyService.Handler: the handler of an accepted request reaches Submit
HandlerSubmitCall(r) ==
    /\ rst[r] = "accepted"
    /\ SubmitCall(r)

\* ProxyService.Handler: Submit has returned and the select takes <-done or
\* <-ctx.Done(); the response is complete
ServerRespond(r) ==
    /\ rst[r] = "accepted"
    /\ jst[r] \in {"queued", "running", "done"}
    /\ rst' = [rst EXCEPT ![r] = "responded"]
    /\ UNCHANGED <<listening, shutst, selapsed>>
    /\ UNCHANGED <<breakerVars, coalVars, proxyVars, poolVars, authVars, streamVars, apiVars, cfgVars, moreVars>>

\* setupGracefulShutdown: the signal arrives and Stop runs: it makes ctx and
\* calls s.workerPool.Stop(), which closes quit
ServerStop ==
    /\ selapsed = 0
    /\ Stop

\* Stop: time passes on the deadline of ctx, made before the pool is stopped
ShutdownTick ==
    /\ stopst # "none"
    /\ shutst \in {"none", "draining"}
    /\ selapsed < shutdownTimeout
    /\ selapsed' = selapsed + 1
    /\ UNCHANGED <<listening, rst, shutst>>
    /\ UNCHANGED <<breakerVars, coalVars, proxyVars, poolVars, authVars, streamVars, apiVars, cfgVars, moreVars>>

\* Stop: s.workerPool.Stop() has returned and s.httpServer.Shutdown(ctx)
\* closes the listeners
HTTPShutdown ==
    /\ stopst = "returned"
    /\ shutst = "none"
    /\ listening' = FALSE
    /\ shutst' = "draining"
    /\ UNCHANGED <<rst, selapsed>>
    /\ UNCHANGED <<breakerVars, coalVars, proxyVars, poolVars, authVars, streamVars, apiVars, cfgVars, moreVars>>

\* Shutdown: no connection is active; it returns nil
ShutdownComplete ==
    /\ shutst = "draining"
    /\ \A r \in Jobs : rst[r] # "accepted"
    /\ shutst' = "complete"
    /\ UNCHANGED <<listening, rst, selapsed>>
    /\ UNCHANGED <<breakerVars, coalVars, proxyVars, poolVars, authVars, streamVars, apiVars, cfgVars, moreVars>>

\* Shutdown: ctx is done while a connection is active; it returns ctx.Err()
ShutdownDeadline ==
    /\ shutst = "draining"
    /\ selapsed = shutdownTimeout
    /\ \E r \in Jobs : rst[r] = "accepted"
    /\ shutst' = "deadline"
    /\ UNCHANGED <<listening, rst, selapsed>>
    /\ UNCHANGED <<breakerVars, coalVars, proxyVars, poolVars, authVars, streamVars, apiVars, cfgVars, moreVars>>

NextServer ==
    \/ \E r \in Jobs : ServerAccept(r)
    \/ \E r \in Jobs : HandlerSubmitCall(r)
    \/ \E r \in Jobs : Submit(r)
    \/ \E w \in Workers : PoolWorkerTake(w)
    \/ \E w \in Workers : PoolJobReturn(w)
    \/ \E w \in Workers : PoolWorkerQuit(w)
    \/ \E r \in Jobs : ServerRespond(r)
    \/ ServerStop
    \/ StopReturn
    \/ ShutdownTick
    \/ HTTPShutdown
    \/ ShutdownComplete
    \/ ShutdownDeadline

----------------------------------------------------------------------------
(* Streaming copy, proxy.go: handleStreamingResponse                         *)

streamingBufferSize == 1024

\* len(buf), in blocks
BufBlocks == streamingBufferSize \div BlockBytes

\* buf := make([]byte, streamingBufferSize): zeroed
NewBuf == [i \in 1..BufBlocks |-> 0]

\* the body the upstream sends: block i carries the bytes of position i
Body(len) == [i \in 1..len |-> i]

\* no streaming response is being copied
InitStream ==
    /\ sbody = <<>>
    /\ spos = 0
    /\ sbuf = NewBuf
    /\ sn = 0
    /\ sreadErr = "nil"
    /\ spc = "idle"
    /\ sclient = <<>>
    /\ sflushed = 0
    /\ sret = "none"

\* the mutant of bufPrefix: the whole buffer, stale blocks included
bufWhole(buf, n) == buf

\* buf[:n]
bufPrefix(buf, n) == SubSeq(buf, 1, n)

\* resp.Body.Read(buf) copies the next n blocks of the body to the front of buf
readInto(buf, body, pos, n) ==
    [i \in 1..Len(buf) |-> IF i <= n THEN body[pos + i] ELSE buf[i]]

\* handleStreamingResponse is called for a body; w.(http.Flusher) succeeds
\* or not
StreamStart ==
    /\ spc = "idle"
    /\ \E len \in 0..MaxBodyBlocks, flusher \in BOOLEAN :
          /\ sbody' = Body(len)
          /\ spc' = IF flusher THEN "read" ELSE "copy"
    /\ sbuf' = NewBuf
    /\ UNCHANGED <<spos, sn, sreadErr, sclient, sflushed, sret>>
    /\ UNCHANGED <<breakerVars, coalVars, proxyVars, poolVars, authVars, srvVars, apiVars, cfgVars, moreVars>>

\* n, readErr := resp.Body.Read(buf): at most len(buf) and at most what is
\* left; EOF comes with the last bytes or by itself after them; an error may
\* come with bytes
StreamRead ==
    /\ spc = "read"
    /\ \E n \in 0..BufBlocks, err \in {"nil", "EOF", "err"} :
          /\ spos + n <= Len(sbody)
          /\ err = "EOF" => spos + n = Len(sbody)
          /\ sbuf' = readInto(sbuf, sbody, spos, n)
          /\ spos' = spos + n
          /\ sn' = n
          /\ sreadErr' = err
          /\ spc' = IF n > 0 THEN "write" ELSE "check"
    /\ UNCHANGED <<sbody, sclient, sflushed, sret>>
    /\ UNCHANGED <<breakerVars, coalVars, proxyVars, poolVars, authVars, srvVars, apiVars, cfgVars, moreVars>>

\* _, writeErr := w.Write(buf[:n]): the writer takes all of it, or the first
\* m blocks and reports an error, on which the function returns
StreamWrite ==
    /\ spc = "write"
    /\ \E m \in 0..Len(bufPrefix(sbuf, sn)), writeErr \in BOOLEAN :
          /\ ~writeErr => m = Len(bufPrefix(sbuf, sn))
          /\ sclient' = sclient \o SubSeq(bufPrefix(sbuf, sn), 1, m)
          /\ spc' = IF writeErr THEN "done" ELSE "flush"
          /\ sret' = IF writeErr THEN "writeErr" ELSE sret
    /\ UNCHANGED <<sbody, spos, sbuf, sn, sreadErr, sflushed>>
    /\ UNCHANGED <<breakerVars, coalVars, proxyVars, poolVars, authVars, srvVars, apiVars, cfgVars, moreVars>>

\* flusher.Flush()
StreamFlush ==
    /\ spc = "flush"
    /\ sflushed' = Len(sclient)
    /\ spc' = "check"
    /\ UNCHANGED <<sbody, spos, sbuf, sn, sreadErr, sclient, sret>>
    /\ UNCHANGED <<breakerVars, coalVars, proxyVars, poolVars, authVars, srvVars, apiVars, cfgVars, moreVars>>

\* if readErr == io.EOF { break }; if readErr != nil { return readErr }
StreamCheck ==
    /\ spc = "check"
    /\ spc' = IF sreadErr = "nil" THEN "read" ELSE "done"
    /\ sret' = CASE sreadErr = "EOF" -> "nil"
                 [] sreadErr = "err" -> "readErr"
                 [] OTHER -> sret
    /\ UNCHANGED <<sbody, spos, sbuf, sn, sreadErr, sclient, sflushed>>
    /\ UNCHANGED <<breakerVars, coalVars, proxyVars, poolVars, authVars, srvVars, apiVars, cfgVars, moreVars>>

\* no flusher: io.Copy(w, resp.Body) moves the body up to its end or up to
\* the first error
StreamCopy ==
    /\ spc = "copy"
    /\ \E k \in 0..Len(sbody), err \in BOOLEAN :
          /\ ~err => k = Len(sbody)
          /\ sclient' = SubSeq(sbody, 1, k)
          /\ spos' = k
          /\ sret' = IF err THEN "readErr" ELSE "nil"
    /\ spc' = "done"
    /\ UNCHANGED <<sbody, sbuf, sn, sreadErr, sflushed>>
    /\ UNCHANGED <<breakerVars, coalVars, proxyVars, poolVars, authVars, srvVars, apiVars, cfgVars, moreVars>>

\* the function has returned; the next response has its own body and writer
StreamNext ==
    /\ spc = "done"
    /\ sbody' = <<>>
    /\ spos' = 0
    /\ sbuf' = NewBuf
    /\ sn' = 0
    /\ sreadErr' = "nil"
    /\ spc' = "idle"
    /\ sclient' = <<>>
    /\ sflushed' = 0
    /\ sret' = "none"
    /\ UNCHANGED <<breakerVars, coalVars, proxyVars, poolVars, authVars, srvVars, apiVars, cfgVars, moreVars>>

NextStream ==
    \/ StreamStart
    \/ StreamRead
    \/ StreamWrite
    \/ StreamFlush
    \/ StreamCheck
    \/ StreamCopy
    \/ StreamNext

----------------------------------------------------------------------------
(* Device flow over HTTP, auth_api.go: Stage2Handler, Handler; config.go:    *)
(* Authenticate, AuthenticateStage1, AuthenticateStage2, getDeviceCode,      *)
(* pollForGitHubToken, checkGitHubTokenOnce, getCopilotToken,                *)
(* updateTokenInDatabase, fetchTokenFromDatabase                             *)

\* the characters of the e-mail addresses tried
Letters == {"a", "b"}
Digits == {"1"}
\* [a-zA-Z0-9._%+\-]
LocalChars == Letters \cup Digits \cup {".", "_", "%", "+", "-"}
\* [a-zA-Z0-9.\-]
DomainChars == Letters \cup Digits \cup {".", "-"}

\* the mutant of isValidEmail: any address with an @ passes
isValidEmailAnyAt(email) == \E i \in 1..Len(email) : email[i] = "@"

\* emailRegex.MatchString(email):
\* ^[a-zA-Z0-9._%+\-]+@[a-zA-Z0-9.\-]+\.[a-zA-Z]{2,}$
isValidEmail(email) ==
    \E i \in 1..Len(email), j \in 1..Len(email) :
       /\ email[i] = "@"
       /\ email[j] = "."
       /\ 1 < i
       /\ \A k \in 1..(i - 1) : email[k] \in LocalChars
       /\ i + 1 < j
       /\ \A k \in (i + 1)..(j - 1) : email[k] \in DomainChars
       /\ Len(email) - j >= 2
       /\ \A k \in (j + 1)..Len(email) : email[k] \in Letters

\* req.Email as sent by clients
EmailInputs ==
    { <<>>,
      <<"a", "@", "b", ".", "a", "b">>,
      <<"a", ".", "1", "@", "b", "-", "1", ".", "a", "b">>,
      <<"a", "@", "b", ".", "a">>,
      <<"a", "@", "b", ".", "a", "1">>,
      <<"a", "b">>,
      <<"@", "b", ".", "a", "b">>,
      <<"a", " ", "@", "b", ".", "a", "b">>,
      <<"a", "@", "b">>,
      <<"a", "@", "@", "b", ".", "a", "b">> }

\* what the body of a request holds: nothing, text that is no JSON, a JSON
\* value that is no object, null, or an object whose email member is absent,
\* of another type than string, or a string
NoMember == <<"<absent>">>
WrongType == <<"<number>">>
AuthBodies ==
    [json : {"empty", "garbage", "array", "null"}, email : {NoMember}]
    \cup [json : {"object"}, email : EmailInputs \cup {NoMember, WrongType}]

\* json.Unmarshal(body, &req): the error, and req.Email
UnmarshalErr(body) ==
    \/ body.json \in {"empty", "garbage", "array"}
    \/ body.json = "object" /\ body.email = WrongType

UnmarshalEmail(body) ==
    IF body.json = "object" /\ body.email \notin {NoMember, WrongType} THEN body.email ELSE <<>>

\* no response yet
NoResponse == [status |-> 0, success |-> FALSE, error |-> <<>>]

\* sendErrorResponse, sendStage2ErrorResponse
ErrorResponse(statusCode, message) ==
    [status |-> statusCode, success |-> FALSE, error |-> message]

\* the checks at the head of Handler and of Stage2Handler, in their order;
\* NoResponse when all pass
ValidateAuthRequest(method, readOk, body) ==
    IF method # "POST" THEN ErrorResponse(405, <<"method not allowed">>)
    ELSE IF ~readOk THEN ErrorResponse(400, <<"failed to read request body">>)
    ELSE IF UnmarshalErr(body) THEN ErrorResponse(400, <<"invalid JSON format">>)
    ELSE IF UnmarshalEmail(body) = <<>> THEN ErrorResponse(400, <<"email is required">>)
    ELSE IF ~isValidEmail(UnmarshalEmail(body)) THEN ErrorResponse(400, <<"invalid email format">>)
    ELSE NoResponse

\* the further checks of Stage2Handler
ValidateStage2Request(deviceCodeLen, interval) ==
    IF deviceCodeLen = 0 THEN ErrorResponse(400, <<"device_code is required">>)
    ELSE IF interval <= 0 THEN ErrorResponse(400, <<"interval must be positive">>)
    ELSE NoResponse

\* lengths of device codes and of OAuth tokens, in bytes
DeviceCodeLens == {0, 40}
AccessTokenLens == GitHubTokenLens \cup {40}
\* req.Interval and req.ExpiresIn
Intervals == {0, 1}
ExpiresIns == {0, 1}

\* tr.Error in the answer of the token endpoint ("" when absent)
TokenErrors ==
    { <<>>,
      <<"authorization_pending">>,
      <<"slow_down">>,
      <<"expired_token">>,
      <<"not_", "authorization_pending">> }

\* a log entry: the message and, when a field holds bytes of a secret, the
\* secret's name, the number of its leading bytes in the field and its length
LogEntry(msg, secret, shown, len) ==
    [msg |-> msg, secret |-> secret, shown |-> shown, len |-> len]

\* a log entry with no secret in its fields
PlainEntry(msg) == LogEntry(msg, "none", 0, 0)

\* before any request
NoApiReq == [op |-> "none", method |-> "", readOk |-> FALSE,
             body |-> [json |-> "empty", email |-> NoMember],
             pollMode |-> FALSE, deviceCodeLen |-> 0,
             interval |-> 0, expiresIn |-> 0, now |-> 0]

InitApi ==
    /\ zpc = "idle"
    /\ zreq = NoApiReq
    /\ zdevReqs = 0
    /\ ztokReqs = 0
    /\ zexch = 0
    /\ zfetches = 0
    /\ zwrites = <<>>
    /\ zgithubLen = 0
    /\ zcfg = NoToken
    /\ zerr = <<>>
    /\ zresp = NoResponse
    /\ zlog = <<>>

\* a response is written and the handler returns
ApiRespond(resp) ==
    /\ zresp' = resp
    /\ zpc' = "done"

\* Stage2Handler up to the call of AuthenticateStage2
Stage2HandlerEntry ==
    /\ zpc = "idle"
    /\ \E method \in {"GET", "POST"}, readOk \in BOOLEAN, body \in AuthBodies,
          dcl \in DeviceCodeLens, iv \in Intervals, ex \in ExpiresIns,
          pm \in BOOLEAN, t \in NowValues :
          LET v1 == ValidateAuthRequest(method, readOk, body)
              v2 == ValidateStage2Request(dcl, iv)
          IN  /\ zreq' = [op |-> "stage2", method |-> method, readOk |-> readOk,
                          body |-> body, pollMode |-> pm, deviceCodeLen |-> dcl,
                          interval |-> iv, expiresIn |-> ex, now |-> t]
              /\ IF v1 # NoResponse
                   THEN ApiRespond(v1) /\ UNCHANGED zlog
                 ELSE IF v2 # NoResponse
                   THEN ApiRespond(v2) /\ UNCHANGED zlog
                 ELSE /\ zlog' = Append(zlog, PlainEntry("Starting authentication stage 2 for user"))
                      /\ zpc' = "stage2"
                      /\ zresp' = zresp
    /\ UNCHANGED <<zdevReqs, ztokReqs, zexch, zfetches, zwrites, zgithubLen, zcfg, zerr>>
    /\ UNCHANGED <<breakerVars, coalVars, proxyVars, poolVars, authVars, srvVars, streamVars, cfgVars, moreVars>>

\* Handler up to the call of Authenticate, and Authenticate up to stage 1:
\* a config whose API token is valid for more than 60 seconds ends it at once
AuthHandlerEntry ==
    /\ zpc = "idle"
    /\ \E method \in {"GET", "POST"}, readOk \in BOOLEAN, body \in AuthBodies,
          stillValid \in BOOLEAN, t \in NowValues :
          LET v1 == ValidateAuthRequest(method, readOk, body)
          IN  /\ zreq' = [NoApiReq EXCEPT !.op = "auth", !.method = method,
                                          !.readOk = readOk, !.body = body,
                                          !.pollMode = TRUE, !.now = t]
              /\ IF v1 # NoResponse
                   THEN ApiRespond(v1) /\ UNCHANGED zlog
                   ELSE /\ zlog' = Append(zlog, PlainEntry("Starting authentication for user"))
                        /\ zpc' = IF stillValid THEN "fetch" ELSE "stage1"
                        /\ zresp' = zresp
    /\ UNCHANGED <<zdevReqs, ztokReqs, zexch, zfetches, zwrites, zgithubLen, zcfg, zerr>>
    /\ UNCHANGED <<breakerVars, coalVars, proxyVars, poolVars, authVars, srvVars, streamVars, cfgVars, moreVars>>

\* the handler's answer to an error of Authenticate or AuthenticateStage2:
\* 202 for a text with authorization_pending outside poll mode, else 500
AuthFailureResponse(pollMode, errText) ==
    IF ~pollMode /\ Contains(errText, <<"authorization_pending">>)
      THEN ErrorResponse(202, <<"authorization_pending">>)
      ELSE ErrorResponse(500, errText)

\* the flow fails with an error text
ApiFail(errText) ==
    /\ zerr' = errText
    /\ ApiRespond(AuthFailureResponse(zreq.pollMode, errText))

\* AuthenticateStage1 / getDeviceCode: one request to the device-code URL;
\* the answer gives device code, interval and expires_in (members the answer
\* lacks are zero)
GetDeviceCode ==
    /\ zpc = "stage1"
    /\ zdevReqs' = zdevReqs + 1
    /\ \E ok \in BOOLEAN, dcl \in DeviceCodeLens, iv \in Intervals, ex \in ExpiresIns :
          IF ok
            THEN /\ zreq' = [zreq EXCEPT !.deviceCodeLen = dcl, !.interval = iv,
                                         !.expiresIn = ex]
                 /\ zlog' = zlog \o <<PlainEntry("Sending device code request"),
                                      PlainEntry("Device code generated")>>
                 /\ zpc' = "stage2"
                 /\ UNCHANGED <<zerr, zresp>>
            ELSE /\ ApiFail(<<"failed to get device code: ">> \o ErrTransport)
                 /\ zlog' = zlog \o <<PlainEntry("Sending device code request"),
                                      PlainEntry("Device code request failed")>>
                 /\ zreq' = zreq
    /\ UNCHANGED <<ztokReqs, zexch, zfetches, zwrites, zgithubLen, zcfg>>
    /\ UNCHANGED <<breakerVars, coalVars, proxyVars, poolVars, authVars, srvVars, streamVars, cfgVars, moreVars>>

\* AuthenticateStage2: the Info entry that carries device_code, and the
\* choice between polling and the single check
Stage2Start ==
    /\ zpc = "stage2"
    /\ zlog' = Append(zlog,
                 LogEntry(IF zreq.pollMode THEN "Polling for GitHub token"
                                           ELSE "Checking GitHub token once",
                          "device_code", zreq.deviceCodeLen, zreq.deviceCodeLen))
    /\ zpc' = IF zreq.pollMode THEN "poll" ELSE "once"
    /\ UNCHANGED <<zreq, zdevReqs, ztokReqs, zexch, zfetches, zwrites, zgithubLen, zcfg,
                   zerr, zresp>>
    /\ UNCHANGED <<breakerVars, coalVars, proxyVars, poolVars, authVars, srvVars, streamVars, cfgVars, moreVars>>

\* checkGitHubTokenOnce: one request to the token endpoint
CheckGitHubTokenOnce ==
    /\ zpc = "once"
    /\ ztokReqs' = ztokReqs + 1
    /\ zlog' = Append(zlog, PlainEntry("Checking GitHub token once"))
    /\ \E kind \in {"transport", "decode", "answer"}, e \in TokenErrors,
          len \in AccessTokenLens :
          CASE kind = "transport" ->
                 /\ ApiFail(<<"failed to check GitHub token: ">> \o ErrTransport)
                 /\ zgithubLen' = zgithubLen
            [] kind = "decode" ->
                 /\ ApiFail(<<"failed to check GitHub token: ">> \o ErrDecode)
                 /\ zgithubLen' = zgithubLen
            [] kind = "answer" /\ e # <<>> ->
                 /\ ApiFail(<<"failed to check GitHub token: ">> \o NewAuthError(e))
                 /\ zgithubLen' = zgithubLen
            [] kind = "answer" /\ e = <<>> /\ len = 0 ->
                 /\ ApiFail(<<"failed to check GitHub token: ">>
                              \o NewAuthError(<<"no access token in response">>))
                 /\ zgithubLen' = zgithubLen
            [] OTHER ->
                 /\ zgithubLen' = len
                 /\ zpc' = "exchange"
                 /\ UNCHANGED <<zerr, zresp>>
    /\ UNCHANGED <<zreq, zdevReqs, zexch, zfetches, zwrites, zcfg>>
    /\ UNCHANGED <<breakerVars, coalVars, proxyVars, poolVars, authVars, srvVars, streamVars, cfgVars, moreVars>>

\* maxIterations := (expiresIn / interval) + 1
maxIterations(expiresIn, interval) == (expiresIn \div interval) + 1

\* pollForGitHubToken: one iteration of the loop after its sleep; a failed
\* request, an undecodable answer, authorization_pending and an answer with
\* neither error nor token go on to the next iteration
PollForGitHubToken ==
    /\ zpc = "poll"
    /\ zreq.interval # 0
    /\ ztokReqs < maxIterations(zreq.expiresIn, zreq.interval)
    /\ ztokReqs' = ztokReqs + 1
    /\ \E kind \in {"transport", "decode", "answer"}, e \in TokenErrors,
          len \in AccessTokenLens :
          CASE kind = "answer" /\ e \notin {<<>>, <<"authorization_pending">>} ->
                 /\ ApiFail(<<"failed to get GitHub token: ">>
                              \o NewAuthError(<<"authorization failed: ">> \o e \o <<" - ">>))
                 /\ zgithubLen' = zgithubLen
            [] kind = "answer" /\ e = <<>> /\ len # 0 ->
                 /\ zgithubLen' = len
                 /\ zpc' = "exchange"
                 /\ UNCHANGED <<zerr, zresp>>
            [] OTHER ->
                 /\ UNCHANGED <<zgithubLen, zpc, zerr, zresp>>
    /\ UNCHANGED <<zreq, zdevReqs, zexch, zfetches, zwrites, zcfg, zlog>>
    /\ UNCHANGED <<breakerVars, coalVars, proxyVars, poolVars, authVars, srvVars, streamVars, cfgVars, moreVars>>

\* pollForGitHubToken: the loop has run maxIterations times
PollTimedOut ==
    /\ zpc = "poll"
    /\ zreq.interval # 0
    /\ ztokReqs >= maxIterations(zreq.expiresIn, zreq.interval)
    /\ ApiFail(<<"failed to get GitHub token: ">> \o NewAuthError(<<"authentication timed out">>))
    /\ UNCHANGED <<zreq, zdevReqs, ztokReqs, zexch, zfetches, zwrites, zgithubLen, zcfg, zlog>>
    /\ UNCHANGED <<breakerVars, coalVars, proxyVars, poolVars, authVars, srvVars, streamVars, cfgVars, moreVars>>

\* pollForGitHubToken: expiresIn / interval with interval = 0 panics
PollDivideByZero ==
    /\ zpc = "poll"
    /\ zreq.interval = 0
    /\ zpc' = "panic"
    /\ UNCHANGED <<zreq, zdevReqs, ztokReqs, zexch, zfetches, zwrites, zgithubLen, zcfg,
                   zerr, zresp, zlog>>
    /\ UNCHANGED <<breakerVars, coalVars, proxyVars, poolVars, authVars, srvVars, streamVars, cfgVars, moreVars>>

\* the bytes of the OAuth token in the field github_token_prefix:
\* githubToken[:10]+"..."
tokenPrefixLen(len) == 10

\* AuthenticateStage2 / getCopilotToken: the Debug entry with the token
\* prefix (a token of fewer than 10 bytes panics in githubToken[:10]), then
\* one request to the API-key endpoint; its token, expires_at and refresh_in
\* go to cfg as they come
GetCopilotToken ==
    /\ zpc = "exchange"
    /\ IF zgithubLen < 10
         THEN /\ zpc' = "panic"
              /\ UNCHANGED <<zexch, zcfg, zerr, zresp, zlog>>
         ELSE /\ zexch' = zexch + 1
              /\ \E kind \in {"transport", "status", "decode", "ok"},
                    hasToken \in BOOLEAN, exp \in UpstreamExpiries(zreq.now) :
                    LET dbg == LogEntry("Requesting Copilot token", "github_token",
                                        tokenPrefixLen(zgithubLen), zgithubLen)
                    IN  CASE kind = "transport" ->
                               /\ ApiFail(<<"failed to get Copilot token: ">> \o ErrTransport)
                               /\ zlog' = zlog \o <<dbg, PlainEntry("Failed to request Copilot token")>>
                               /\ zcfg' = zcfg
                          [] kind = "status" ->
                               /\ ApiFail(<<"failed to get Copilot token: ">> \o ErrHTTPStatus)
                               /\ zlog' = zlog \o <<dbg, PlainEntry("Copilot token request failed")>>
                               /\ zcfg' = zcfg
                          [] kind = "decode" ->
                               /\ ApiFail(<<"failed to get Copilot token: ">> \o ErrDecode)
                               /\ zlog' = zlog \o <<dbg, PlainEntry("Copilot token response received")>>
                               /\ zcfg' = zcfg
                          [] OTHER ->
                               /\ zcfg' = [copilot |-> hasToken, githubLen |-> zgithubLen,
                                           expiresAt |-> exp]
                               /\ zlog' = zlog \o <<dbg, PlainEntry("Copilot token response received")>>
                               /\ zpc' = "store"
                               /\ UNCHANGED <<zerr, zresp>>
    /\ UNCHANGED <<zreq, zdevReqs, ztokReqs, zfetches, zwrites, zgithubLen>>
    /\ UNCHANGED <<breakerVars, coalVars, proxyVars, poolVars, authVars, srvVars, streamVars, cfgVars, moreVars>>

\* AuthenticateStage2 / updateTokenInDatabase: cfg is posted to the store
UpdateTokenInDatabase ==
    /\ zpc = "store"
    /\ zwrites' = Append(zwrites, zcfg)
    /\ \E kind \in {"transport", "status", "refused", "ok"} :
          CASE kind = "transport" ->
                 /\ ApiFail(<<"failed to save token to database: ">> \o ErrTransport)
                 /\ zlog' = zlog
            [] kind = "status" ->
                 /\ ApiFail(<<"failed to save token to database: ">> \o ErrHTTPStatus)
                 /\ zlog' = zlog
            [] kind = "refused" ->
                 /\ ApiFail(<<"failed to save token to database: ">>
                              \o NewAuthError(<<"failed to update token in database">>))
                 /\ zlog' = zlog
            [] OTHER ->
                 /\ zlog' = zlog \o <<PlainEntry("Token updated in database successfully"),
                                      PlainEntry("Authentication successful")>>
                 /\ zpc' = "fetch"
                 /\ UNCHANGED <<zerr, zresp>>
    /\ UNCHANGED <<zreq, zdevReqs, ztokReqs, zexch, zfetches, zgithubLen, zcfg>>
    /\ UNCHANGED <<breakerVars, coalVars, proxyVars, poolVars, authVars, srvVars, streamVars, cfgVars, moreVars>>

\* the handler after the flow: fetchTokenFromDatabase, then 200 or 500
FetchTokenFromDatabase ==
    /\ zpc = "fetch"
    /\ zfetches' = zfetches + 1
    /\ \E ok \in BOOLEAN :
          IF ok
            THEN ApiRespond([status |-> 200, success |-> TRUE, error |-> <<>>])
            ELSE ApiRespond(ErrorResponse(500,
                   <<"authentication succeeded but failed to retrieve token info">>))
    /\ UNCHANGED <<zreq, zdevReqs, ztokReqs, zexch, zwrites, zgithubLen, zcfg, zerr, zlog>>
    /\ UNCHANGED <<breakerVars, coalVars, proxyVars, poolVars, authVars, srvVars, streamVars, cfgVars, moreVars>>

\* the next request: a request's counters and log start empty
ApiNextRequest ==
    /\ zpc \in {"done", "panic"}
    /\ zpc' = "idle"
    /\ zreq' = NoApiReq
    /\ zdevReqs' = 0
    /\ ztokReqs' = 0
    /\ zexch' = 0
    /\ zfetches' = 0
    /\ zwrites' = <<>>
    /\ zgithubLen' = 0
    /\ zcfg' = NoToken
    /\ zerr' = <<>>
    /\ zresp' = NoResponse
    /\ zlog' = <<>>
    /\ UNCHANGED <<breakerVars, coalVars, proxyVars, poolVars, authVars, srvVars, streamVars, cfgVars, moreVars>>

NextApi ==
    \/ Stage2HandlerEntry
    \/ AuthHandlerEntry
    \/ GetDeviceCode
    \/ Stage2Start
    \/ CheckGitHubTokenOnce
    \/ PollForGitHubToken
    \/ PollTimedOut
    \/ PollDivideByZero
    \/ GetCopilotToken
    \/ UpdateTokenInDatabase
    \/ FetchTokenFromDatabase
    \/ ApiNextRequest

----------------------------------------------------------------------------
(* Configuration, config.go: SetDefaultTimeouts, SetDefaultHeaders,          *)
(* SetDefaultCORS, Config.Validate and its validators                        *)

minPortNumber == 1
maxPortNumber == 65535
minTimeout == 1
maxShortTimeout == 300
maxLongTimeout == 3600

\* the fields of Config.Timeouts in the order validateTimeouts checks them,
\* each with its default, its maximum and the name its error carries
TimeoutFields ==
    << [f |-> "HTTPClient",      def |-> 300, max |-> maxLongTimeout,  err |-> "timeouts.http_client"],
       [f |-> "ServerRead",      def |-> 30,  max |-> maxShortTimeout, err |-> "timeouts.server_read"],
       [f |-> "ServerWrite",     def |-> 300, max |-> maxLongTimeout,  err |-> "timeouts.server_write"],
       [f |-> "ServerIdle",      def |-> 120, max |-> maxLongTimeout,  err |-> "timeouts.server_idle"],
       [f |-> "ProxyContext",    def |-> 300, max |-> maxLongTimeout,  err |-> "timeouts.proxy_context"],
       [f |-> "CircuitBreaker",  def |-> 30,  max |-> maxShortTimeout, err |-> "timeouts.circuit_breaker"],
       [f |-> "KeepAlive",       def |-> 30,  max |-> maxShortTimeout, err |-> "timeouts.keep_alive"],
       [f |-> "TLSHandshake",    def |-> 10,  max |-> maxShortTimeout, err |-> "timeouts.tls_handshake"],
       [f |-> "DialTimeout",     def |-> 10,  max |-> maxShortTimeout, err |-> "timeouts.dial_timeout"],
       [f |-> "IdleConnTimeout", def |-> 90,  max |-> maxLongTimeout,  err |-> "timeouts.idle_conn_timeout"] >>

TimeoutNames == {TimeoutFields[i].f : i \in 1..Len(TimeoutFields)}

\* the fields of Config.Headers in the order validateHeaders checks them
HeaderFields ==
    << [f |-> "UserAgent",            def |-> "GitHubCopilotChat/0.29.1", err |-> "headers.user_agent"],
       [f |-> "EditorVersion",        def |-> "vscode/1.102.3",           err |-> "headers.editor_version"],
       [f |-> "EditorPluginVersion",  def |-> "copilot-chat/0.29.1",      err |-> "headers.editor_plugin_version"],
       [f |-> "CopilotIntegrationID", def |-> "vscode-chat",              err |-> "headers.copilot_integration_id"],
       [f |-> "OpenaiIntent",         def |-> "conversation-edits",       err |-> "headers.openai_intent"],
       [f |-> "XInitiator",           def |-> "user",                     err |-> "headers.x_initiator"] >>

HeaderNames == {HeaderFields[i].f : i \in 1..Len(HeaderFields)}

\* &Config{}: the zero value
ZeroConfig ==
    [Port |-> 0, GitHubToken |-> "", CopilotToken |-> "",
     Timeouts |-> [f \in TimeoutNames |-> 0],
     Headers |-> [f \in HeaderNames |-> ""],
     AllowedOrigins |-> <<>>, AllowedHeaders |-> <<>>]

\* a configuration file that sets every timeout, header and CORS list
FileConfig ==
    [Port |-> 0, GitHubToken |-> "", CopilotToken |-> "",
     Timeouts |-> [f \in TimeoutNames |-> 60],
     Headers |-> [f \in HeaderNames |-> "custom"],
     AllowedOrigins |-> <<"https://example.com">>, AllowedHeaders |-> <<"Content-Type">>]

\* the values tried for the port and for a timeout
PortValues == {0, minPortNumber, maxPortNumber, maxPortNumber + 1}
TimeoutValues == {0, minTimeout, maxShortTimeout, maxShortTimeout + 1,
                  maxLongTimeout, maxLongTimeout + 1}

\* the configurations tried: one of the two above with a port, tokens, one
\* timeout and at most one header and the CORS lists set apart
ConfigInputs ==
    { [base EXCEPT !.Port = p, !.GitHubToken = g, !.CopilotToken = c,
                   !.Timeouts[tf] = tv,
                   !.Headers = [f \in HeaderNames |-> IF f = hf THEN "" ELSE @[f]],
                   !.AllowedOrigins = IF o THEN @ ELSE <<>>,
                   !.AllowedHeaders = IF h THEN @ ELSE <<>>] :
        base \in {ZeroConfig, FileConfig}, p \in PortValues,
        g \in {"", "gho_token"}, c \in {"", "tid=token"},
        tf \in TimeoutNames, tv \in TimeoutValues,
        hf \in HeaderNames \cup {"none"}, o \in BOOLEAN, h \in BOOLEAN }

SetDefaultTimeouts(cfg) ==
    [cfg EXCEPT !.Timeouts =
        [f \in TimeoutNames |->
            IF cfg.Timeouts[f] = 0
              THEN TimeoutFields[CHOOSE i \in 1..Len(TimeoutFields) :
                                    TimeoutFields[i].f = f].def
              ELSE cfg.Timeouts[f]]]

SetDefaultHeaders(cfg) ==
    [cfg EXCEPT !.Headers =
        [f \in HeaderNames |->
            IF cfg.Headers[f] = ""
              THEN HeaderFields[CHOOSE i \in 1..Len(HeaderFields) :
                                   HeaderFields[i].f = f].def
              ELSE cfg.Headers[f]]]

SetDefaultCORS(cfg) ==
    [cfg EXCEPT !.AllowedOrigins = IF Len(@) = 0 THEN <<"*">> ELSE @,
                !.AllowedHeaders = IF Len(@) = 0 THEN <<"*">> ELSE @]

\* the nil error of Validate
NoError == "nil"

validatePort(c) ==
    IF c.Port < minPortNumber \/ c.Port > maxPortNumber THEN "port" ELSE NoError

validateTokens(c) ==
    IF c.GitHubToken = "" /\ c.CopilotToken = "" THEN "ErrMissingTokens" ELSE NoError

\* the mutant of timeoutOutOfRange: zero is let through
timeoutOutOfRangeZeroOk(v, max) == v < 0 \/ v > max

\* v < minTimeout || v > max
timeoutOutOfRange(v, max) == v < minTimeout \/ v > max

\* the error of the first timeout out of its range
validateTimeouts(c) ==
    LET bad == {i \in 1..Len(TimeoutFields) :
                  timeoutOutOfRange(c.Timeouts[TimeoutFields[i].f], TimeoutFields[i].max)}
    IN  IF bad = {} THEN NoError
        ELSE TimeoutFields[CHOOSE i \in bad : \A j \in bad : i <= j].err

\* the error of the first empty header
validateHeaders(c) ==
    LET bad == {i \in 1..Len(HeaderFields) : c.Headers[HeaderFields[i].f] = ""}
    IN  IF bad = {} THEN NoError
        ELSE HeaderFields[CHOOSE i \in bad : \A j \in bad : i <= j].err

validateCORS(c) ==
    IF Len(c.AllowedOrigins) = 0 THEN "cors.allowed_origins"
    ELSE IF Len(c.AllowedHeaders) = 0 THEN "cors.allowed_headers"
    ELSE NoError

\* Config.Validate: the first error of the five validators
Validate(c) ==
    IF validatePort(c) # NoError THEN validatePort(c)
    ELSE IF validateTokens(c) # NoError THEN validateTokens(c)
    ELSE IF validateTimeouts(c) # NoError THEN validateTimeouts(c)
    ELSE IF validateHeaders(c) # NoError THEN validateHeaders(c)
    ELSE validateCORS(c)

InitConfig ==
    /\ vpc = "none"
    /\ vraw = ZeroConfig
    /\ vcfg = ZeroConfig
    /\ vdefaults = FALSE
    /\ vres = "none"

\* a Config value is made (decoded from a file, or built by a caller)
ConfigMake ==
    /\ vpc = "none"
    /\ \E c \in ConfigInputs :
          /\ vraw' = c
          /\ vcfg' = c
    /\ vpc' = "made"
    /\ UNCHANGED <<vdefaults, vres>>
    /\ UNCHANGED <<breakerVars, coalVars, proxyVars, poolVars, authVars, srvVars, streamVars,
                   apiVars, moreVars>>

\* SetDefaultTimeouts(cfg); SetDefaultHeaders(cfg); SetDefaultCORS(cfg)
ConfigSetDefaults ==
    /\ vpc = "made"
    /\ ~vdefaults
    /\ vcfg' = SetDefaultCORS(SetDefaultHeaders(SetDefaultTimeouts(vcfg)))
    /\ vdefaults' = TRUE
    /\ UNCHANGED <<vpc, vraw, vres>>
    /\ UNCHANGED <<breakerVars, coalVars, proxyVars, poolVars, authVars, srvVars, streamVars,
                   apiVars, moreVars>>

\* cfg.Validate()
ConfigValidate ==
    /\ vpc = "made"
    /\ vres' = Validate(vcfg)
    /\ vpc' = "validated"
    /\ UNCHANGED <<vraw, vcfg, vdefaults>>
    /\ UNCHANGED <<breakerVars, coalVars, proxyVars, poolVars, authVars, srvVars, streamVars,
                   apiVars, moreVars>>

\* the next Config value
ConfigNext ==
    /\ vpc = "validated"
    /\ vpc' = "none"
    /\ vraw' = ZeroConfig
    /\ vcfg' = ZeroConfig
    /\ vdefaults' = FALSE
    /\ vres' = "none"
    /\ UNCHANGED <<breakerVars, coalVars, proxyVars, poolVars, authVars, srvVars, streamVars,
                   apiVars, moreVars>>

NextConfig ==
    \/ ConfigMake
    \/ ConfigSetDefaults
    \/ ConfigValidate
    \/ ConfigNext

----------------------------------------------------------------------------
(* Polling of the token endpoint, config.go: pollForGitHubToken,              *)
(* pollForGitHubTokenWithContext                                              *)

\* interval and expiresIn of a call, in seconds (0: the member was missing)
PollIntervals == {0, 1, 2}
PollExpiresIns == {0, 1, 3, 4}

NoPoll == [interval |-> 0, expiresIn |-> 0, cancellable |-> FALSE]
\* an answer of the token endpoint: how the request ended, tr.Error and
\* len(tr.AccessToken)
NoAnswer == [kind |-> "none", error |-> <<>>, len |-> 0]
PollReturn(len, err) == [len |-> len, err |-> err]

InitPoll ==
    /\ gpc = "idle"
    /\ gin = NoPoll
    /\ giter = 0
    /\ gpolls = 0
    /\ gctxDone = FALSE
    /\ glast = NoAnswer
    /\ gret = PollReturn(0, NoErr)

\* a caller invokes pollForGitHubTokenWithContext(ctx, ...); pollForGitHubToken
\* passes context.Background(), which is never done
PollCall ==
    /\ gpc = "idle"
    /\ \E iv \in PollIntervals, ex \in PollExpiresIns, c \in BOOLEAN, d \in BOOLEAN :
         /\ d => c
         /\ gin' = [interval |-> iv, expiresIn |-> ex, cancellable |-> c]
         /\ gctxDone' = d
    /\ gpc' = "entry"
    /\ UNCHANGED <<giter, gpolls, glast, gret>>
    /\ UNCHANGED <<breakerVars, coalVars, proxyVars, poolVars, authVars, srvVars, streamVars,
                   apiVars, cfgVars, refVars>>

\* maxIterations := (expiresIn / interval) + 1: a zero interval panics
PollEntry ==
    /\ gpc = "entry"
    /\ gpc' = IF gin.interval = 0 THEN "panic" ELSE "loop"
    /\ UNCHANGED <<gin, giter, gpolls, gctxDone, glast, gret>>
    /\ UNCHANGED <<breakerVars, coalVars, proxyVars, poolVars, authVars, srvVars, streamVars,
                   apiVars, cfgVars, refVars>>

\* for range maxIterations: the next iteration, or after the last one
\* return "", NewAuthError("authentication timed out", nil)
PollLoop ==
    /\ gpc = "loop"
    /\ IF giter < maxIterations(gin.expiresIn, gin.interval)
       THEN /\ giter' = giter + 1
            /\ gpc' = "select"
            /\ UNCHANGED gret
       ELSE /\ gret' = PollReturn(0, NewAuthError(<<"authentication timed out">>))
            /\ gpc' = "returned"
            /\ UNCHANGED giter
    /\ UNCHANGED <<gin, gpolls, gctxDone, glast>>
    /\ UNCHANGED <<breakerVars, coalVars, proxyVars, poolVars, authVars, srvVars, streamVars,
                   apiVars, cfgVars, refVars>>

\* the select takes <-time.After(interval seconds): the request is made
PollSelectTimer ==
    /\ gpc = "select"
    /\ backoffSelect(gctxDone) = "timer"
    /\ gpc' = "request"
    /\ UNCHANGED <<gin, giter, gpolls, gctxDone, glast, gret>>
    /\ UNCHANGED <<breakerVars, coalVars, proxyVars, poolVars, authVars, srvVars, streamVars,
                   apiVars, cfgVars, refVars>>

\* the select takes <-ctx.Done(): return "", ctx.Err()
PollSelectCtx ==
    /\ gpc = "select"
    /\ backoffSelect(gctxDone) = "ctx"
    /\ gret' = PollReturn(0, ErrCanceled)
    /\ gpc' = "returned"
    /\ UNCHANGED <<gin, giter, gpolls, gctxDone, glast>>
    /\ UNCHANGED <<breakerVars, coalVars, proxyVars, poolVars, authVars, srvVars, streamVars,
                   apiVars, cfgVars, refVars>>

\* a loop that stops at authorization_pending as at any other error
pollOutcomeStopOnPending(a) ==
    CASE a.kind # "answer" -> "continue"
      [] a.error # <<>> -> "fail"
      [] a.len # 0 -> "token"
      [] OTHER -> "continue"

\* the loop body after the request: a failed request and an undecodable
\* answer continue; tr.Error other than authorization_pending returns an
\* AuthError, authorization_pending continues; then a non-empty
\* tr.AccessToken is returned; anything else continues
pollOutcome(a) ==
    CASE a.kind # "answer" -> "continue"
      [] a.error = <<"authorization_pending">> -> "continue"
      [] a.error # <<>> -> "fail"
      [] a.len # 0 -> "token"
      [] OTHER -> "continue"

\* one request to the token endpoint, made without the context, and what
\* the loop does with its answer
PollRequest ==
    /\ gpc = "request"
    /\ gpolls' = gpolls + 1
    /\ \E kind \in {"transport", "decode", "answer"}, e \in TokenErrors,
          len \in AccessTokenLens :
         LET a == [kind |-> kind,
                   error |-> IF kind = "answer" THEN e ELSE <<>>,
                   len |-> IF kind = "answer" THEN len ELSE 0] IN
         /\ glast' = a
         /\ CASE pollOutcome(a) = "fail" ->
                   /\ gret' = PollReturn(0, NewAuthError(<<"authorization failed: ">>
                                                          \o a.error \o <<" - ">>))
                   /\ gpc' = "returned"
              [] pollOutcome(a) = "token" ->
                   /\ gret' = PollReturn(a.len, NoErr)
                   /\ gpc' = "returned"
              [] OTHER ->
                   /\ gpc' = "loop"
                   /\ UNCHANGED gret
    /\ UNCHANGED <<gin, giter, gctxDone>>
    /\ UNCHANGED <<breakerVars, coalVars, proxyVars, poolVars, authVars, srvVars, streamVars,
                   apiVars, cfgVars, refVars>>

\* the caller cancels ctx while the call runs
PollCancel ==
    /\ gpc \in {"entry", "loop", "select", "request"}
    /\ gin.cancellable
    /\ ~gctxDone
    /\ gctxDone' = TRUE
    /\ UNCHANGED <<gpc, gin, giter, gpolls, glast, gret>>
    /\ UNCHANGED <<breakerVars, coalVars, proxyVars, poolVars, authVars, srvVars, streamVars,
                   apiVars, cfgVars, refVars>>

\* the call is over; the next one starts afresh
PollNextCall ==
    /\ gpc \in {"returned", "panic"}
    /\ gpc' = "idle"
    /\ gin' = NoPoll
    /\ giter' = 0
    /\ gpolls' = 0
    /\ gctxDone' = FALSE
    /\ glast' = NoAnswer
    /\ gret' = PollReturn(0, NoErr)
    /\ UNCHANGED <<breakerVars, coalVars, proxyVars, poolVars, authVars, srvVars, streamVars,
                   apiVars, cfgVars, refVars>>

NextPoll ==
    \/ PollCall
    \/ PollEntry
    \/ PollLoop
    \/ PollSelectTimer
    \/ PollSelectCtx
    \/ PollRequest
    \/ PollCancel
    \/ PollNextCall

----------------------------------------------------------------------------
(* Concurrent refreshes for one email, config.go: EnsureValidToken,           *)
(* RefreshTokenWithContext, getCopilotToken, updateTokenInDatabase; the       *)
(* token store is the external service behind getDatabaseURL()               *)

Refreshers == 1..NumRefreshers

\* the n-th answer of the API-key endpoint: ctr.Token, ctr.ExpiresAt,
\* ctr.RefreshIn; successive answers differ in every member
Answer(n) == [token |-> n, expiresAt |-> 1800 * n, refreshIn |-> 1500 + n]

\* a record of the store, and the body of a POST to it
StoreRecord(github, a) ==
    [githubToken |-> github, copilotToken |-> a.token,
     expiresAt |-> a.expiresAt, refreshIn |-> a.refreshIn]

\* the zero Config
EmptyCfg == StoreRecord("", [token |-> 0, expiresAt |-> 0, refreshIn |-> 0])

\* every refresh working on one Config shared by all callers
cfgOfShared(r) == 1

\* EnsureValidToken: cfg is the Config that this call's own
\* fetchTokenFromDatabase has made
cfgOf(r) == r

InitRefreshers ==
    /\ xpc = [r \in Refreshers |-> "idle"]
    /\ xcfg = [c \in Refreshers |-> EmptyCfg]
    /\ xattempt = [r \in Refreshers |-> 0]
    /\ xans = [r \in Refreshers |-> 0]
    /\ xissued = 0
    /\ xposts = {}
    /\ xstore = StoreRecord("gho", Answer(0))
    /\ xapplied = <<>>
    /\ xposted = [r \in Refreshers |-> EmptyCfg]
    /\ xupdates = [r \in Refreshers |-> 0]
    /\ xres = [r \in Refreshers |-> "none"]

\* EnsureValidToken: fetchTokenFromDatabase makes cfg from the stored
\* record; the token is about to expire, so RefreshToken is called and
\* its loop starts at attempt 1
RefFetch(r) ==
    /\ xpc[r] = "idle"
    /\ xcfg' = [xcfg EXCEPT ![cfgOf(r)] = xstore]
    /\ xattempt' = [xattempt EXCEPT ![r] = 1]
    /\ xpc' = [xpc EXCEPT ![r] = "attempt"]
    /\ UNCHANGED <<xans, xissued, xposts, xstore, xapplied, xposted, xupdates, xres>>
    /\ UNCHANGED <<breakerVars, coalVars, proxyVars, poolVars, authVars, srvVars, streamVars,
                   apiVars, cfgVars, pollVars>>

\* one getCopilotToken: an answer of the endpoint, or an error; the last
\* failed attempt returns its error
RefExchange(r) ==
    /\ xpc[r] = "attempt"
    /\ \/ /\ xissued < MaxIssued
          /\ xissued' = xissued + 1
          /\ xans' = [xans EXCEPT ![r] = xissued + 1]
          /\ xpc' = [xpc EXCEPT ![r] = "setToken"]
          /\ UNCHANGED <<xattempt, xres>>
       \/ /\ IF xattempt[r] = maxRefreshRetries
             THEN /\ xres' = [xres EXCEPT ![r] = "err"]
                  /\ xpc' = [xpc EXCEPT ![r] = "returned"]
                  /\ UNCHANGED xattempt
             ELSE /\ xattempt' = [xattempt EXCEPT ![r] = xattempt[r] + 1]
                  /\ UNCHANGED <<xres, xpc>>
          /\ UNCHANGED <<xissued, xans>>
    /\ UNCHANGED <<xcfg, xposts, xstore, xapplied, xposted, xupdates>>
    /\ UNCHANGED <<breakerVars, coalVars, proxyVars, poolVars, authVars, srvVars, streamVars,
                   apiVars, cfgVars, pollVars>>

\* cfg.CopilotToken = copilotToken
RefSetToken(r) ==
    /\ xpc[r] = "setToken"
    /\ xcfg' = [xcfg EXCEPT ![cfgOf(r)].copilotToken = Answer(xans[r]).token]
    /\ xpc' = [xpc EXCEPT ![r] = "setExpiresAt"]
    /\ UNCHANGED <<xattempt, xans, xissued, xposts, xstore, xapplied, xposted, xupdates, xres>>
    /\ UNCHANGED <<breakerVars, coalVars, proxyVars, poolVars, authVars, srvVars, streamVars,
                   apiVars, cfgVars, pollVars>>

\* cfg.ExpiresAt = expiresAt
RefSetExpiresAt(r) ==
    /\ xpc[r] = "setExpiresAt"
    /\ xcfg' = [xcfg EXCEPT ![cfgOf(r)].expiresAt = Answer(xans[r]).expiresAt]
    /\ xpc' = [xpc EXCEPT ![r] = "setRefreshIn"]
    /\ UNCHANGED <<xattempt, xans, xissued, xposts, xstore, xapplied, xposted, xupdates, xres>>
    /\ UNCHANGED <<breakerVars, coalVars, proxyVars, poolVars, authVars, srvVars, streamVars,
                   apiVars, cfgVars, pollVars>>

\* cfg.RefreshIn = refreshIn
RefSetRefreshIn(r) ==
    /\ xpc[r] = "setRefreshIn"
    /\ xcfg' = [xcfg EXCEPT ![cfgOf(r)].refreshIn = Answer(xans[r]).refreshIn]
    /\ xpc' = [xpc EXCEPT ![r] = "update"]
    /\ UNCHANGED <<xattempt, xans, xissued, xposts, xstore, xapplied, xposted, xupdates, xres>>
    /\ UNCHANGED <<breakerVars, coalVars, proxyVars, poolVars, authVars, srvVars, streamVars,
                   apiVars, cfgVars, pollVars>>

\* updateTokenInDatabase: the body is made from cfg's four fields and the
\* POST is sent
RefPost(r) ==
    /\ xpc[r] = "update"
    /\ xposts' = xposts \cup {[from |-> r, rec |-> xcfg[cfgOf(r)]]}
    /\ xposted' = [xposted EXCEPT ![r] = xcfg[cfgOf(r)]]
    /\ xupdates' = [xupdates EXCEPT ![r] = xupdates[r] + 1]
    /\ xpc' = [xpc EXCEPT ![r] = "posted"]
    /\ UNCHANGED <<xcfg, xattempt, xans, xissued, xstore, xapplied, xres>>
    /\ UNCHANGED <<breakerVars, coalVars, proxyVars, poolVars, authVars, srvVars, streamVars,
                   apiVars, cfgVars, pollVars>>

\* the store takes one POST that is under way and replaces the record of
\* the email by its body
StoreApply(r) ==
    /\ \E p \in xposts :
         /\ p.from = r
         /\ xstore' = p.rec
         /\ xposts' = xposts \ {p}
    /\ xapplied' = Append(xapplied, r)
    /\ UNCHANGED <<xpc, xcfg, xattempt, xans, xissued, xposted, xupdates, xres>>
    /\ UNCHANGED <<breakerVars, coalVars, proxyVars, poolVars, authVars, srvVars, streamVars,
                   apiVars, cfgVars, pollVars>>

\* updateTokenInDatabase returns: nil after the store's answer, an error
\* when the request failed or its 5 seconds ran out (the POST may still
\* reach the store)
RefReturn(r) ==
    /\ xpc[r] = "posted"
    /\ \/ /\ \E i \in 1..Len(xapplied) : xapplied[i] = r
          /\ xres' = [xres EXCEPT ![r] = "ok"]
       \/ xres' = [xres EXCEPT ![r] = "err"]
    /\ xpc' = [xpc EXCEPT ![r] = "returned"]
    /\ UNCHANGED <<xcfg, xattempt, xans, xissued, xposts, xstore, xapplied, xposted, xupdates>>
    /\ UNCHANGED <<breakerVars, coalVars, proxyVars, poolVars, authVars, srvVars, streamVars,
                   apiVars, cfgVars, pollVars>>

\* a POST that never reaches the store
PostLost(r) ==
    /\ xpc[r] = "returned"
    /\ xres[r] = "err"
    /\ \E p \in xposts : p.from = r /\ xposts' = xposts \ {p}
    /\ UNCHANGED <<xpc, xcfg, xattempt, xans, xissued, xstore, xapplied, xposted, xupdates, xres>>
    /\ UNCHANGED <<breakerVars, coalVars, proxyVars, poolVars, authVars, srvVars, streamVars,
                   apiVars, cfgVars, pollVars>>

NextRefreshers ==
    \/ \E r \in Refreshers : RefFetch(r)
    \/ \E r \in Refreshers : RefExchange(r)
    \/ \E r \in Refreshers : RefSetToken(r)
    \/ \E r \in Refreshers : RefSetExpiresAt(r)
    \/ \E r \in Refreshers : RefSetRefreshIn(r)
    \/ \E r \in Refreshers : RefPost(r)
    \/ \E r \in Refreshers : StoreApply(r)
    \/ \E r \in Refreshers : RefReturn(r)
    \/ \E r \in Refreshers : PostLost(r)

InitMore ==
    /\ InitPoll
    /\ InitRefreshers

InitExtra ==
    /\ InitServer
    /\ InitStream
    /\ InitApi
    /\ InitConfig
    /\ InitMore

----------------------------------------------------------------------------
(* Specifications *)

Init == InitBreaker /\ InitCoalesce /\ InitProxy /\ InitPool /\ InitAuth /\ InitExtra

\* the breaker, one call at a time
SpecBreakerSeq == Init /\ [][NextBreakerSeq]_vars

\* the breaker under concurrent admission checks and notifications
SpecBreaker == Init /\ [][NextBreaker]_vars

\* concurrent /v1/models requests through the coalescing cache
SpecCoalesce == Init /\ [][NextCoalesce]_vars

\* the same under a fair scheduler, fn() returning normally
SpecCoalesceFair == Init /\ [][NextCoalesce]_vars /\ FairCoalesce

\* client requests served one after the other by Handler and a worker
SpecProxy == Init /\ [][NextProxy]_vars

\* the worker pool with its submitters
SpecPool == Init /\ [][NextPool]_vars

\* the worker pool under a fair scheduler
SpecPoolFair == Init /\ [][NextPool]_vars /\ FairPool

\* the token service, one call at a time
SpecAuth == Init /\ [][NextAuth]_vars

\* the HTTP server with its pool, from Start to the end of Stop
SpecServer == Init /\ [][NextServer]_vars

\* the copy of streamed responses, one response at a time
SpecStream == Init /\ [][NextStream]_vars

\* the device-flow endpoints, one request at a time
SpecApi == Init /\ [][NextApi]_vars

\* configurations made, filled with defaults and validated
SpecConfig == Init /\ [][NextConfig]_vars

\* pollForGitHubTokenWithContext, call after call
SpecPoll == Init /\ [][NextPoll]_vars

\* concurrent refreshes for one email and the token store
SpecRefreshers == Init /\ [][NextRefreshers]_vars

----------------------------------------------------------------------------
(* Claims about the circuit breaker *)

\* C1: run sequentially, the breaker follows the transition table: it is
\* Closed exactly while fewer than 5 consecutive failures have been notified
\* (the 5th opens it); an admission check on an Open breaker within the
\* timeout of the last failure is rejected and leaves it Open; the first one
\* after the timeout is admitted and moves it to HalfOpen; a success in
\* HalfOpen closes it with the counter at 0; a failure in HalfOpen moves it
\* to Open and stamps the last-failure time with the time of the call.
C1_TransitionTable ==
    /\ (cb.state = CircuitClosed) <=> (consec < 5)
    /\ lastCall.op # "none" => cb = lastCall.after
    /\ (/\ lastCall.op = "canExecute"
        /\ lastCall.before.state = CircuitOpen
        /\ lastCall.at - lastCall.before.lastFailureTime <= CBTimeout)
       => (~lastCall.result /\ lastCall.after = lastCall.before)
    /\ (/\ lastCall.op = "canExecute"
        /\ lastCall.before.state = CircuitOpen
        /\ lastCall.at - lastCall.before.lastFailureTime > CBTimeout)
       => (lastCall.result /\ lastCall.after.state = CircuitHalfOpen)
    /\ (lastCall.op = "canExecute" /\ lastCall.before.state # CircuitOpen)
       => (lastCall.result /\ lastCall.after = lastCall.before)
    /\ (lastCall.op = "onSuccess" /\ lastCall.before.state = CircuitHalfOpen)
       => (lastCall.after.state = CircuitClosed /\ lastCall.after.failureCount = 0)
    /\ (lastCall.op = "onFailure" /\ lastCall.before.state = CircuitHalfOpen)
       => (/\ lastCall.after.state = CircuitOpen
           /\ lastCall.after.lastFailureTime = lastCall.at)

\* C1 witness: the breaker was opened, probed after the timeout, and the
\* probe's failure has just sent it from HalfOpen back to Open
C1_Witness ==
    /\ lastCall.op = "onFailure"
    /\ lastCall.before.state = CircuitHalfOpen
    /\ cb.state = CircuitOpen

\* C2: under every interleaving of admission checks and outcome
\* notifications, an admission check that returns true on a breaker that is
\* not Closed returns more than the timeout after the most recently recorded
\* failure (as in every serial order of the calls).
C2_OpenRejectsUntilTimeout ==
    (/\ lastCall.op = "canExecute"
     /\ lastCall.result
     /\ lastCall.after.state # CircuitClosed)
    => lastCall.at - lastCall.after.lastFailureTime > CBTimeout

----------------------------------------------------------------------------
(* Claims about the coalescing cache and the models handler *)

\* C4: every caller of CoalesceRequest that found the key while the first
\* caller's produce was still running returns the value that produce
\* returned (produce ran once for all of them).
C4_OverlappingCallersShareValue ==
    \A c \in Callers :
        (kpc[c] \in {"assert", "done"} /\ kjoin[c])
        => kret[c] = chans[kch[c]].produced

\* C5: concurrent /v1/models requests on a cold cache compute the model list
\* once, and every request is answered with status 200 and that list; none
\* panics or is answered with an error status.
C5_ConcurrentModelsRequestsAllOK ==
    /\ loads <= 1
    /\ \A c \in Callers :
        kpc[c] = "done" => (kstatus[c] = 200 /\ kret[c] = cachedModels)

----------------------------------------------------------------------------
(* Claims about the proxy pipeline *)

\* C3 as stated: every upstream 5xx response counts as one breaker failure,
\* so a request whose three attempts all returned 5xx leaves the client with
\* that status and the failure count three higher than it found it.
C3_EveryUpstream5xxCounts ==
    (Finished /\ hbranch = "done" /\ n5xx = 3)
    => (/\ ClientStatus = lastOutcome.status
        /\ cb.failureCount = adm.cb.failureCount + 3)

\* C3 as amended: a client request whose three attempts all returned 5xx
\* leaves the client with that status (the deadline not having expired) and
\* the failure count one higher; the breaker is Closed exactly while fewer
\* than 5 consecutive client requests have ended in a failure; a request
\* whose admission check finds the breaker Open within the timeout of the
\* last failure receives 503 and is not processed.
C3_OneFailurePerRequest ==
    /\ (Finished /\ hbranch = "done" /\ n5xx = 3)
       => (/\ ClientStatus = lastOutcome.status
           /\ lastOutcome.status >= 500
           /\ cb.failureCount = adm.cb.failureCount + 1)
    /\ (cb.state = CircuitClosed) <=> (consec < 5)
    /\ (/\ hpc \notin {"idle", "admit"}
        /\ adm.cb.state = CircuitOpen
        /\ adm.at - adm.cb.lastFailureTime <= CBTimeout)
       => (hbranch = "rejected" /\ wire = <<503>> /\ wpc = "none")

\* C3 witness: the fifth failing client request in a row, its three attempts
\* all answered 5xx, has just opened the breaker
C3_Witness ==
    /\ Finished /\ hbranch = "done" /\ n5xx = 3
    /\ adm.cb.failureCount = 4
    /\ cb.state = CircuitOpen /\ cb.failureCount = 5

C7_LastResponseReturned ==
    LET st == lastOutcome.status IN
    (/\ attempt = 3
     /\ ~lastOutcome.err
     /\ (st \in {408, 429} \/ st >= 500)
     /\ wpc \in {"notify", "writeHeader", "copy", "finished"})
    => (/\ retryRes = [kind |-> "resp", status |-> st]
        /\ wpc \in {"writeHeader", "copy", "finished"}
           => notes = <<IF st >= 500 THEN "failure" ELSE "success">>
        /\ wpc \in {"copy", "finished"}
           => (/\ \E i \in 1..Len(wire) : wire[i] = st
               /\ hbranch # "timeout" => ClientStatus = st))

\* C7 witness: three attempts, the last answered 500; the client has
\* received 500 and the breaker a failure
C7_Witness ==
    /\ Finished /\ hbranch = "done"
    /\ attempt = 3 /\ upstreamCalls = 3
    /\ lastOutcome = [err |-> FALSE, status |-> 500]
    /\ ClientStatus = 500
    /\ notes = <<"failure">>

\* C8: a POST whose body is longer than the 5 MiB cap is answered 413, and
\* no token check and no upstream request is made for it.
C8_BodyTooLarge413 ==
    (/\ Finished /\ hbranch = "done"
     /\ req.method = "POST"
     /\ req.bodyLen > 5 * 1024 * 1024)
    => (ClientStatus = 413 /\ tokenChecks = 0 /\ upstreamCalls = 0)

\* C9: for every model string of a well-formed POST: when the allow-list is
\* non-empty and does not hold it, the client is answered 400 and nothing is
\* sent upstream; otherwise the request goes on to token validation.
C9_AllowListEnforced ==
    (/\ Finished /\ hbranch = "done"
     /\ req.method = "POST"
     /\ req.bodyLen >= 1 /\ req.bodyLen <= 5 * 1024 * 1024
     /\ req.readOK /\ req.json)
    => IF /\ Len(allowedModels) > 0
          /\ ~\E i \in 1..Len(allowedModels) : allowedModels[i] = req.model
       THEN ClientStatus = 400 /\ upstreamCalls = 0 /\ tokenChecks = 0
       ELSE tokenChecks = 1

\* C10: the underlying response writer receives at most one WriteHeader per
\* request, in every interleaving of handler and worker.
C10_SingleWriteHeader == Len(wire) <= 1

\* C11: a handler that takes its deadline branch either finds that no
\* headers were sent and the client is answered 408, or finds that headers
\* were sent, writes nothing, and the status line stays as the worker wrote
\* it.
C11_DeadlineAnswers408 ==
    (Finished /\ hbranch = "timeout")
    => \/ wire = <<408>>
       \/ (Len(wire) = 2 /\ wire[1] = 408)
       \/ (retryRes.kind = "resp" /\ wire = <<retryRes.status>>)

----------------------------------------------------------------------------
(* Claims about the worker pool *)

\* C12: the deadline bounds the handler: a handler whose deadline has
\* expired is not held back by the pool, whether the job queue is full or
\* the pool has been stopped; it is never blocked in Submit on a full queue
\* that no worker is free to take from.
C12_DeadlineBoundsHandler ==
    \A j \in HandlerJobs :
        (hexp[j] /\ ~hret[j] /\ ~crashed)
        => ~(/\ jst[j] = "submit"
             /\ Len(jobQueue) = QueueCap
             /\ \A w \in Workers : wst[w] # "select")

\* C18: while the pool has not been stopped, every job accepted by Submit
\* is eventually taken by a worker, no job is taken twice, and jobs are
\* taken in the order in which they were accepted.
C18_AcceptedJobsRunOnceInOrder ==
    /\ [](/\ Len(started) <= Len(accepted)
          /\ \A i \in 1..Len(started) : started[i] = accepted[i]
          /\ \A i, k \in 1..Len(started) : started[i] = started[k] => i = k)
    /\ \A j \in Jobs : (jst[j] = "queued") ~> (jst[j] \in {"running", "done"} \/ quit)

\* C19: a panicking job does not escape the pool: until Stop is called the
\* number of live workers equals the configured worker count.
C19_WorkersSurvivePanics ==
    ~quit => Cardinality({w \in Workers : wst[w] \in {"select", "running"}}) = PoolWorkers

\* C20: once Stop has closed the quit channel no worker starts a job still
\* in the queue, and Stop returns only after every worker has exited.
C20_StopDrainsNothing ==
    /\ [](stopst = "returned" => \A w \in Workers : wst[w] = "exited")
    /\ [][quit => started' = started]_vars

----------------------------------------------------------------------------
(* Claims about the token service *)

C14_CancelInBackoffStops ==
    cancelledIn = "backoff"
    => (/\ apc \in {"backoff", "returned"}
        /\ apc = "returned" => ares = "ctxErr"
        /\ exchanges = rattempt
        /\ rattempt < maxRefreshRetries
        /\ storeUpdates = 0)

\* C14 witness: cancelled in the backoff after the second failed exchange,
\* the refresh has returned the context's error
C14_Witness ==
    /\ cancelledIn = "backoff"
    /\ apc = "returned"
    /\ ares = "ctxErr"
    /\ exchanges = 2

\* C15: RefreshTokenWithContext called with a context that is already
\* cancelled, a GitHub token on file and no refresh override, returns an
\* error.
C15_CancelledContextFails ==
    (/\ apc = "returned"
     /\ acall.op = "refresh"
     /\ acall.ctxAtEntry
     /\ ~acall.override
     /\ acall.record.githubLen > 0)
    => ares \in {"err", "ctxErr"}

----------------------------------------------------------------------------
(* Further claims about the proxy pipeline *)

\* C16: when EnsureValidToken fails for a proxy request, the error handed to
\* the handler contains "token validation failed", the client is answered
\* 401 (the deadline branch of the handler not having been taken), no
\* upstream request is sent and the breaker is notified of nothing.
C16_TokenFailure401 ==
    LET tokenFailed == tokenChecks = 1 /\ wpc = "finished" /\ req.path = "" IN
    /\ tokenFailed
       => (/\ upstreamCalls = 0
           /\ notes = <<>>
           /\ doneCh # <<>> => Contains(Head(doneCh), <<"token validation failed">>))
    /\ (tokenFailed /\ Finished /\ hbranch = "done") => wire = <<401>>

\* C16 witness: the token check of a request has failed and the handler has
\* answered 401
C16_Witness ==
    /\ Finished /\ hbranch = "done"
    /\ tokenChecks = 1 /\ req.path = ""
    /\ wire = <<401>>
    /\ upstreamCalls = 0

\* C17: the checks of a proxy request run in the order breaker admission
\* (503), method (405), body read and non-empty (400, or 413 over the cap),
\* JSON (400), allow-list (400), token (401), route (500); the client
\* receives the status of the first failing check, and no later check, no
\* token check and no upstream request runs after it; a rejected request
\* has no job submitted.
C17_ChecksInOrder ==
    LET notAllowed == /\ Len(allowedModels) > 0
                      /\ ~\E i \in 1..Len(allowedModels) : allowedModels[i] = req.model
        invalid == IF req.method # "POST" THEN 405
                   ELSE IF req.bodyLen > 5 * 1024 * 1024 THEN 413
                   ELSE IF ~req.readOK \/ req.bodyLen = 0 THEN 400
                   ELSE IF ~req.json THEN 400
                   ELSE IF notAllowed THEN 400
                   ELSE 0
        tokenFailed == tokenChecks = 1 /\ req.path = ""
        routeFailed == req.path \notin {"", "/v1/completions", "/v1/chat/completions"}
    IN /\ hbranch = "rejected" => (wire = <<503>> /\ wpc = "none" /\ tokenChecks = 0)
       /\ (Finished /\ hbranch = "done" /\ invalid # 0)
          => (ClientStatus = invalid /\ tokenChecks = 0 /\ upstreamCalls = 0)
       /\ (Finished /\ hbranch = "done" /\ invalid = 0 /\ tokenFailed)
          => (ClientStatus = 401 /\ upstreamCalls = 0)
       /\ (Finished /\ hbranch = "done" /\ invalid = 0 /\ routeFailed)
          => (ClientStatus = 500 /\ tokenChecks = 1 /\ upstreamCalls = 0)

----------------------------------------------------------------------------
(* Claims about the shutdown of the server *)

\* C21: on shutdown the server first stops accepting requests, then the
\* worker pool is stopped, then the HTTP server is shut down: once the pool
\* has been stopped (Stop of the pool has returned) no request is accepted
\* and no job is submitted to the pool.
C21_NothingAfterPoolStopped ==
    [][stopst = "returned" =>
          /\ \A r \in Jobs : rst[r] = "new" => rst'[r] = "new"
          /\ accepted' = accepted]_vars

----------------------------------------------------------------------------
(* Claims about the streaming copy *)

\* C22: with a flushing writer, what the client's writer has taken is at
\* every moment a prefix of the upstream body, in order; when the function
\* returns after a read, every block read was delivered (also blocks that
\* came together with EOF); no write is larger than 1024 bytes; before every
\* upstream read all that was written has been flushed; after a write error
\* or a read error other than EOF nothing more is read or written.
C22_StreamIsFlushedPrefix ==
    /\ [](/\ Len(sclient) <= Len(sbody)
          /\ \A i \in 1..Len(sclient) : sclient[i] = sbody[i])
    /\ [](sret \in {"nil", "readErr"} => Len(sclient) = spos)
    /\ [](spc = "read" => sflushed = Len(sclient))
    /\ [][spc = "write" =>
            (Len(sclient') - Len(sclient)) * BlockBytes <= streamingBufferSize]_vars
    /\ [][spc = "check" /\ sreadErr = "err" => spc' = "done" /\ sret' = "readErr"]_vars
    /\ [][sret # "none" => (sclient' = sclient /\ spos' = spos) \/ spc' = "idle"]_vars

\* C22 witness: a body of more than one buffer was streamed to its end, the
\* last blocks arrived together with EOF, and all of it was flushed
C22_Witness ==
    /\ spc = "done"
    /\ sret = "nil"
    /\ Len(sbody) = MaxBodyBlocks
    /\ Len(sbody) > BufBlocks
    /\ sn > 0
    /\ sreadErr = "EOF"
    /\ sflushed = Len(sbody)
    /\ sclient = sbody

----------------------------------------------------------------------------
(* Claims about the device-flow endpoints *)

\* C23: a stage-2 request in single-check mode sends exactly one request to
\* the token endpoint; when that request is answered error=authorization_pending
\* the response is 202 and neither the API-key exchange nor a store write
\* has happened; every other failure of the flow is answered 500; in poll
\* mode no failure is answered 202.
C23_OnlyPendingIs202 ==
    LET pending == <<"failed to check GitHub token: ">>
                     \o NewAuthError(<<"authorization_pending">>)
    IN  zpc = "done" /\ zreq.op = "stage2" =>
          /\ ~zreq.pollMode => ztokReqs = 1
          /\ ~zreq.pollMode /\ zerr = pending =>
                zresp.status = 202 /\ zexch = 0 /\ zwrites = <<>>
          /\ ~zreq.pollMode /\ zerr # <<>> /\ zerr # pending => zresp.status = 500
          /\ zreq.pollMode => zresp.status # 202

\* C24: the handler of /v1/auth/github answers a request that is not a POST
\* with 405, a POST whose body is empty or no JSON with 400 "invalid JSON
\* format", a POST without an email with 400 "email is required", a POST
\* with a malformed email with 400 "invalid email format"; each of these
\* responses has success=false, and the request has caused no request to
\* the device-code, token or API-key endpoints and no access to the store.
C24_RequestValidatedInOrder ==
    LET b == zreq.body
        post == zreq.method = "POST" /\ zreq.readOk
        malformed == { <<"a", "@", "b", ".", "a">>,
                       <<"a", "@", "b", ".", "a", "1">>,
                       <<"a", "b">>,
                       <<"@", "b", ".", "a", "b">>,
                       <<"a", " ", "@", "b", ".", "a", "b">>,
                       <<"a", "@", "b">>,
                       <<"a", "@", "@", "b", ".", "a", "b">> }
        untouched == /\ zdevReqs = 0
                     /\ ztokReqs = 0
                     /\ zexch = 0
                     /\ zfetches = 0
                     /\ zwrites = <<>>
        rejected(code, text) == /\ zresp = [status |-> code, success |-> FALSE, error |-> text]
                                /\ untouched
    IN  zpc = "done" /\ zreq.op = "auth" =>
          /\ zreq.method # "POST" => rejected(405, <<"method not allowed">>)
          /\ post /\ b.json \in {"empty", "garbage"} =>
                rejected(400, <<"invalid JSON format">>)
          /\ post /\ b.json = "object" /\ b.email \in {NoMember, <<>>} =>
                rejected(400, <<"email is required">>)
          /\ post /\ b.json = "object" /\ b.email \in malformed =>
                rejected(400, <<"invalid email format">>)

\* C24 witness: a POST with a JSON object whose email has a one-letter
\* top-level domain was answered 400 "invalid email format"
C24_Witness ==
    /\ zpc = "done"
    /\ zreq.op = "auth"
    /\ zreq.method = "POST"
    /\ zreq.readOk
    /\ zreq.body = [json |-> "object", email |-> <<"a", "@", "b", ".", "a">>]
    /\ zresp = [status |-> 400, success |-> FALSE, error |-> <<"invalid email format">>]
    /\ zdevReqs = 0

----------------------------------------------------------------------------
(* Claims about the model list *)

\* C25: the model list is computed at most once; once it is loaded it never
\* changes, and every /v1/models request that begins after the load is
\* answered 200 with the cached list.
C25_LoadedOnceAndServed ==
    /\ [](loads <= 1)
    /\ [][modelsLoaded => cachedModels' = cachedModels /\ loads' = loads]_vars
    /\ [](\A c \in Callers :
            kafter[c] /\ kpc[c] = "done" => kstatus[c] = 200 /\ kret[c] = cachedModels)

----------------------------------------------------------------------------
(* Claims about the records written to the token store *)

\* C26: every record that stage 2 or a refresh posts to the token store with
\* a non-empty API token has an expiry greater than zero.
C26_StoredExpiryPositive ==
    /\ \A i \in 1..Len(zwrites) : zwrites[i].copilot => zwrites[i].expiresAt > 0
    /\ storeUpdates > 0 /\ tok.copilot => tok.expiresAt > 0

----------------------------------------------------------------------------
(* Claims about the log *)

\* C27: no log entry holds a complete secret: a field derived from a device
\* code or a token holds at most its first 10 bytes and never all of it, so
\* that two runs whose secrets differ only beyond that prefix log the same
\* fields.
C27_NoCompleteSecretLogged ==
    \A i \in 1..Len(zlog) :
       zlog[i].secret # "none" /\ zlog[i].len > 0 =>
          zlog[i].shown <= 10 /\ zlog[i].shown < zlog[i].len

----------------------------------------------------------------------------
(* Claims about the configuration *)

\* C28: Validate returns nil exactly for a configuration whose port is in
\* 1..65535, that has an OAuth token or an API token, whose timeouts are all
\* at least 1 and at most 300 (server_read, circuit_breaker, keep_alive,
\* tls_handshake, dial_timeout) or 3600 (http_client, server_write,
\* server_idle, proxy_context, idle_conn_timeout), whose six headers are
\* non-empty and whose two CORS lists are non-empty; with a valid port and
\* no token it returns ErrMissingTokens; a zero configuration with a valid
\* port and a token, filled by the three SetDefault functions, is accepted.
C28_ValidateAcceptsIff ==
    LET c == vcfg
        short == {"ServerRead", "CircuitBreaker", "KeepAlive", "TLSHandshake", "DialTimeout"}
        long == {"HTTPClient", "ServerWrite", "ServerIdle", "ProxyContext", "IdleConnTimeout"}
        portOk == c.Port >= 1 /\ c.Port <= 65535
        tokenOk == c.GitHubToken # "" \/ c.CopilotToken # ""
        ok == /\ portOk
              /\ tokenOk
              /\ \A f \in short : c.Timeouts[f] >= 1 /\ c.Timeouts[f] <= 300
              /\ \A f \in long : c.Timeouts[f] >= 1 /\ c.Timeouts[f] <= 3600
              /\ \A h \in DOMAIN c.Headers : c.Headers[h] # ""
              /\ c.AllowedOrigins # <<>>
              /\ c.AllowedHeaders # <<>>
        onlyDefaults == vraw = [ZeroConfig EXCEPT !.Port = vraw.Port,
                                                  !.GitHubToken = vraw.GitHubToken,
                                                  !.CopilotToken = vraw.CopilotToken]
    IN  vpc = "validated" =>
          /\ DOMAIN c.Timeouts = short \cup long
          /\ vres = "nil" <=> ok
          /\ portOk /\ ~tokenOk => vres = "ErrMissingTokens"
          /\ onlyDefaults /\ vdefaults /\ portOk /\ tokenOk => vres = "nil"

\* C28 witness: a configuration with nothing but port 1 and an OAuth token,
\* filled by the three SetDefault functions, was validated and accepted
C28_Witness ==
    /\ vpc = "validated"
    /\ vdefaults
    /\ vraw = [ZeroConfig EXCEPT !.Port = 1, !.GitHubToken = "gho_token"]
    /\ vcfg.Timeouts.ServerIdle = 120
    /\ vres = "nil"

----------------------------------------------------------------------------
(* Claims about the refresh of the Copilot token                             *)

\* C29: a refresh for a record with no GitHub (OAuth) token and no injected
\* refresh function never reaches an exchange attempt, a backoff or a store
\* update: it makes no token-exchange request, no store update and no wait,
\* and it returns the AuthError "no GitHub token available for refresh"; so
\* EnsureValidTokenWithConfig on a Copilot token that expires within 300
\* seconds or has expired, with no GitHub token, returns an error.
C29_NoGitHubTokenFailsAtOnce ==
    (apc # "idle" /\ ~acall.override /\ acall.record.githubLen = 0) =>
        /\ apc \in {"ensure", "refresh", "returned"}
        /\ exchanges = 0
        /\ storeUpdates = 0
        /\ rwaits = <<>>
        /\ rerrs = <<>>
        /\ tok = acall.record
        /\ (apc = "returned" /\ acall.op = "refresh") =>
              /\ ares = "err"
              /\ aerr = NewAuthError(<<"no GitHub token available for refresh">>)
        /\ (apc = "returned" /\ acall.op = "ensure" /\ acall.record.copilot
              /\ acall.record.expiresAt <= tnow + 300) =>
              /\ ares = "err"
              /\ aerr = NewAuthError(<<"no GitHub token available for refresh">>)
              /\ refreshes = 1

\* C29 witness: EnsureValidTokenWithConfig has returned the refresh's error
\* for an expired Copilot token of a record without GitHub token.
C29_Witness ==
    /\ apc = "returned"
    /\ acall.op = "ensure"
    /\ ~acall.override
    /\ acall.record.copilot
    /\ acall.record.githubLen = 0
    /\ acall.record.expiresAt < tnow
    /\ refreshes = 1
    /\ ares = "err"
    /\ exchanges = 0

----------------------------------------------------------------------------
(* Claims about the polling of the token endpoint                            *)

\* C31 as stated: for positive expires_in and interval the token endpoint is
\* polled up to ceil(expires_in/interval)+1 times, and the timeout AuthError
\* comes once that bound is reached, that is after exactly
\* ceil(expires_in/interval)+1 requests.
C31_TimeoutAfterCeilingPlusOne ==
    (gpc \in {"loop", "select", "request", "returned"} /\ gin.expiresIn > 0) =>
        /\ gpolls <= ((gin.expiresIn + gin.interval - 1) \div gin.interval) + 1
        /\ (gpc = "returned" /\ gret.err = <<"authentication timed out">>) =>
              gpolls = ((gin.expiresIn + gin.interval - 1) \div gin.interval) + 1

\* C31 amended: for positive expires_in and interval the token endpoint is
\* polled at most floor(expires_in/interval)+1 times. After each request:
\* an answer whose error is authorization_pending, a failed request, an
\* undecodable answer and an answer with neither error nor token go on to
\* the next iteration; any other error answer ends the call with the
\* AuthError "authorization failed"; an answer with no error and a non-empty
\* access_token ends it with that token. A context done at the wait before a
\* request ends the call with the context's error and no further request.
\* When floor(expires_in/interval)+1 requests have been made without such an
\* end, the call ends with the AuthError "authentication timed out".
C31_PollsFloorPlusOne ==
    (gpc \in {"loop", "select", "request", "returned"} /\ gin.expiresIn > 0) =>
        LET bound == (gin.expiresIn \div gin.interval) + 1 IN
        /\ gpolls <= bound
        /\ giter <= bound
        /\ gpc = "loop" =>
              /\ gpolls = giter
              /\ \/ glast.kind = "none" /\ gpolls = 0
                 \/ glast.kind \in {"transport", "decode"}
                 \/ glast.error = <<"authorization_pending">>
                 \/ glast.error = <<>> /\ glast.len = 0
        /\ gpc = "returned" =>
              \/ /\ gret.err = ErrCanceled
                 /\ gctxDone
                 /\ gret.len = 0
                 /\ gpolls = giter - 1
              \/ /\ gret.err = <<"authentication timed out">>
                 /\ gret.len = 0
                 /\ gpolls = bound
                 /\ \/ glast.kind \in {"transport", "decode"}
                    \/ glast.error = <<"authorization_pending">>
                    \/ glast.error = <<>> /\ glast.len = 0
              \/ /\ gret.err = <<"authorization failed: ">> \o glast.error \o <<" - ">>
                 /\ gret.len = 0
                 /\ glast.kind = "answer"
                 /\ glast.error \notin {<<>>, <<"authorization_pending">>}
              \/ /\ gret.err = NoErr
                 /\ gret.len = glast.len
                 /\ glast.kind = "answer"
                 /\ glast.error = <<>>
                 /\ glast.len > 0
        /\ (gpc = "select" /\ gctxDone) => ENABLED PollSelectCtx /\ ~ENABLED PollSelectTimer

\* C31 witness: with expires_in = 3 and interval = 2 the call has ended with
\* the timeout after 2 requests, the last one answered authorization_pending.
C31_Witness ==
    /\ gpc = "returned"
    /\ gin.expiresIn = 3
    /\ gin.interval = 2
    /\ gpolls = 2
    /\ glast.error = <<"authorization_pending">>
    /\ gret.err = <<"authentication timed out">>

----------------------------------------------------------------------------
(* Claims about the proxy request's context, the breaker's notifications and *)
(* the response after the retry loop                                         *)

\* C32: every network operation made for a proxy request runs under a
\* context derived from the request's deadline: once the deadline has passed
\* or the client has gone, no token check (store fetch, refresh, store
\* update) starts and no upstream request is sent.
C32_NothingStartsAfterDeadline ==
    [][ctxDone => (tokenChecks' = tokenChecks /\ upstreamCalls' = upstreamCalls)]_vars

\* C33: for a client request that has reached the upstream call the breaker
\* is notified exactly once, after the retry loop: of a failure iff the final
\* outcome of the upstream call is a transport error or a response with a
\* status of 500 or above, of a success iff it is a response with a status
\* below 500; a final 4xx status never raises the failure count.
C33_NotifiedByFinalOutcome ==
    /\ Len(notes) <= 1
    /\ (wpc \in {"writeHeader", "copy", "finished"} /\ attempt >= 1) => Len(notes) = 1
    /\ notes # <<>> =>
          /\ attempt >= 1
          /\ notes[1] = "failure" <=> (lastOutcome.err \/ lastOutcome.status >= 500)
          /\ notes[1] = "success" <=> (~lastOutcome.err /\ lastOutcome.status < 500)
          /\ (~lastOutcome.err /\ lastOutcome.status \in 400..499)
                => cb.failureCount <= adm.cb.failureCount

----------------------------------------------------------------------------
(* Claims about concurrent refreshes and the token store                     *)

\* C34: a refresh (made by the code itself, no refresh function injected)
\* sends at most one POST to the store; one that returned nil has sent
\* exactly one, whose body holds the OAuth token on file and the token,
\* expiry and refresh interval of the one answer the refresh got; one whose
\* exchange attempts all failed has sent none. Under every interleaving of
\* the refreshes for one email, every POST under way holds the whole result
\* of its own refresh, and the stored record is the body of the POST applied
\* last (the initial record before any): all its fields come from one answer.
C34_OneUpdateWholeRecord ==
    /\ \A r \in Refreshers :
          /\ xupdates[r] <= 1
          /\ xres[r] = "ok" =>
                /\ xupdates[r] = 1
                /\ xans[r] > 0
                /\ xposted[r] = StoreRecord("gho", Answer(xans[r]))
          /\ (xpc[r] = "returned" /\ xans[r] = 0) =>
                (xres[r] = "err" /\ xupdates[r] = 0 /\ xattempt[r] = 3)
    /\ \A p \in xposts : p.rec = StoreRecord("gho", Answer(xans[p.from]))
    /\ xstore = IF xapplied = <<>> THEN StoreRecord("gho", Answer(0))
                ELSE xposted[xapplied[Len(xapplied)]]
    /\ \E n \in 0..xissued : xstore = StoreRecord("gho", Answer(n))

\* C34 witness: two refreshes have each got an answer and returned nil; the
\* store applied the POST of the later answer first, so the record is the
\* whole result of the earlier one.
C34_Witness ==
    /\ \A r \in {1, 2} : xpc[r] = "returned" /\ xres[r] = "ok"
    /\ Len(xapplied) = 2
    /\ xans[xapplied[1]] = 2
    /\ xans[xapplied[2]] = 1
    /\ xstore = StoreRecord("gho", Answer(1))

----------------------------------------------------------------------------
(* Claims about late arrivals and the termination of CoalesceRequest         *)

\* C35: a caller that enters CoalesceRequest after the leader of the key has
\* sent its result and closed the channel starts fn() itself (it becomes a
\* leader with a channel of its own), also while the key is still in the
\* map; it does not wait on the leader's channel for the earlier result or
\* the zero value.
C35_LateArrivalProducesAfresh ==
    [][\A c \in Callers :
         (/\ kpc[c] = "idle"
          /\ kpc'[c] # "idle"
          /\ requests[ModelsKey] # 0
          /\ chans[requests[ModelsKey]].closed)
         => (kpc'[c] = "produce" /\ kch'[c] # requests[ModelsKey])]_vars

----------------------------------------------------------------------------
(* Claims about the breaker's state and its failure count                    *)

\* C36: in every reachable state of the breaker, whatever the interleaving
\* of canExecute, onSuccess and onFailure: Closed implies a failure count
\* below 5, and Open or HalfOpen implies a failure count of 5 or more; so a
\* failure notified while HalfOpen leaves the breaker Open.
C36_StateMatchesFailureCount ==
    /\ [](/\ cb.state = CircuitClosed => cb.failureCount < 5
          /\ cb.state \in {CircuitOpen, CircuitHalfOpen} => cb.failureCount >= 5)
    /\ [][(cb.state = CircuitHalfOpen /\ cb'.failureCount = cb.failureCount + 1)
             => cb'.state = CircuitOpen]_vars


C38_CancelledWaitIsOneFailure ==
    /\ (/\ wpc \in {"writeHeader", "copy", "finished"}
        /\ attempt >= 1
        /\ AfterAttempt(lastOutcome, attempt) = "backoff")
       => (/\ ctxDone
           /\ retryRes.kind = "err"
           /\ wpc = "finished"
           /\ notes = <<"failure">>
           /\ cb.failureCount = adm.cb.failureCount + 1
           /\ consec >= circuitBreakerFailureThreshold => cb.state = CircuitOpen)
    /\ (wpc = "notify" /\ attempt >= 1 /\ AfterAttempt(lastOutcome, attempt) = "backoff")
       => (ctxDone /\ retryRes.kind = "err" /\ notes = <<>>)

\* C38 witness: the fifth request in a row ended by its context during the
\* wait after a first attempt answered 429 has opened the breaker
C38_Witness ==
    /\ wpc = "finished"
    /\ attempt = 1 /\ upstreamCalls = 1
    /\ lastOutcome = [err |-> FALSE, status |-> 429]
    /\ retryRes.kind = "err"
    /\ notes = <<"failure">>
    /\ adm.cb.state = CircuitClosed /\ adm.cb.failureCount = 4
    /\ consec = 5
    /\ cb.state = CircuitOpen /\ cb.failureCount = 5


\* a call of CoalesceRequest by c is in progress
InCoalesceRequest(c) == kpc[c] \in {"produce", "send", "close", "cleanup", "wait"}

\* c is a leader that has not finished its cleanup
LeaderNotCleanedUp(c) == kpc[c] \in {"produce", "send", "close", "cleanup"}

\* C39: fn() returning normally, every caller of CoalesceRequest eventually
\* returns; at most one leader is inside fn() for the key at any time; the
\* key is in the map exactly while a leader has not finished its cleanup
\* (the entry being that leader's channel), so the map is empty whenever no
\* call is in progress.
C39_CallersReturnMapEmptied ==
    /\ [](/\ Cardinality({c \in Callers : kpc[c] = "produce"}) <= 1
          /\ Cardinality({c \in Callers : LeaderNotCleanedUp(c)}) <= 1
          /\ (requests[ModelsKey] # 0) <=> (\E c \in Callers : LeaderNotCleanedUp(c))
          /\ \A c \in Callers : LeaderNotCleanedUp(c) => requests[ModelsKey] = kch[c]
          /\ (\A c \in Callers : ~InCoalesceRequest(c)) => requests[ModelsKey] = 0)
    /\ \A c \in Callers : InCoalesceRequest(c) ~> ~InCoalesceRequest(c)

\* C39 witness: a second leader is inside fn() while a caller that joined
\* the first leader's channel late still waits on it; the map holds the
\* second leader's channel
C39_Witness ==
    \E l, w \in Callers :
        /\ kpc[l] = "produce" /\ kch[l] = 2 /\ requests[ModelsKey] = 2
        /\ kpc[w] = "wait" /\ kch[w] = 1
        /\ chans[1].closed


\* C40 as stated: every job the handler has submitted sends exactly one
\* value on its done channel; so once the workers of the pool have all
\* exited, one value has been sent for every job the queue accepted.
C40_EverySubmittedJobSendsOnce ==
    \A j \in HandlerJobs :
        (/\ jst[j] \in {"queued", "running", "done"}
         /\ \A w \in Workers : wst[w] = "exited")
        => Len(jsent[j]) = 1

\* C40 as amended: a job of the handler sends nothing before a worker runs
\* it and exactly one value when it ends (nil, the pipeline error, or the
\* recovered-panic error); the buffer of capacity 1 is empty while the job
\* runs, so its send never blocks, also when the handler has returned on
\* its deadline; a job still queued when the workers exit sends nothing.
C40_StartedJobSendsOnce ==
    \A j \in HandlerJobs :
        /\ jsent[j] \in {<<>>} \cup {<<v>> : v \in PipelineErrors \cup {ErrWorkerPanic}}
        /\ (Len(jsent[j]) = 1) <=> (jst[j] = "done")
        /\ Len(jdone[j]) <= doneCap
        /\ jst[j] = "running"
           => \A err \in PipelineErrors, panicked \in BOOLEAN :
                 Len(jdone[j]) + Len(doneSends(err, panicked)) <= doneCap
        /\ jdone[j] # <<>> => (jdone[j] = jsent[j] /\ (hret[j] => hexp[j]))

\* C40 witness: the handler returned on its deadline, then the job
\* panicked, recovered and sent its error, which stays in the buffer
C40_Witness ==
    \E j \in HandlerJobs :
        /\ hexp[j] /\ hret[j]
        /\ jst[j] = "done"
        /\ jsent[j] = <<ErrWorkerPanic>>
        /\ jdone[j] = <<ErrWorkerPanic>>

============================================================================
